---- MODULE Spec2Model ----
(***************************************************************************)
(* A model of the perfectmd editing engine (MarkdownEditor.tsx): the       *)
(* contentEditable tree, the selection, the keydown / click / composition  *)
(* handlers and the toolbar commands, with the host (browser) steps the    *)
(* handlers rely on.                                                       *)
(*                                                                         *)
(* Text is a sequence of one-character strings.  "NL" stands for a line    *)
(* feed, "NBSP" for U+00A0, "~f" for the fullwidth tilde U+FF5E and "BT"  *)
(* for the backtick.                                                       *)
(* A node is a record [tag, data, kids, attr, id], attr a sequence of       *)
(* strings (an attribute's name, then its value); a position in the tree   *)
(* is the path of child indexes (1-based) from the editor element, and a   *)
(* boundary point is a path with an offset, as in the DOM.                 *)
(***************************************************************************)
EXTENDS Integers, Sequences, FiniteSets, TLC

(***************************************************************************)
(* Text helpers                                                            *)
(***************************************************************************)

\* String.prototype.trim's white space, over the model's characters.
WhiteSpace == {" ", "NL", "NBSP"}

RECURSIVE Concat(_)
\* The concatenation of a sequence of texts.
Concat(ss) == IF ss = <<>> THEN <<>> ELSE Head(ss) \o Concat(Tail(ss))

\* s.replace(/ /g, ' ')
ReplaceNbsp(s) == [i \in 1..Len(s) |-> IF s[i] = "NBSP" THEN " " ELSE s[i]]

\* s.split('\n').pop(): the text after the last line feed.
LastLine(s) ==
  LET nls == {i \in 1..Len(s) : s[i] = "NL"}
      from == IF nls = {} THEN 1 ELSE (CHOOSE i \in nls : \A j \in nls : j <= i) + 1
  IN SubSeq(s, from, Len(s))

\* s.trim()
Trim(s) ==
  LET ink == {i \in 1..Len(s) : s[i] \notin WhiteSpace}
  IN IF ink = {} THEN <<>>
     ELSE SubSeq(s, CHOOSE i \in ink : \A j \in ink : i <= j,
                    CHOOSE i \in ink : \A j \in ink : j <= i)

\* The first index k such that s[k..j] holds no character of excl (j+1 when s[j] does).
RunStart(s, j, excl) ==
  LET bad == {i \in 1..j : s[i] \in excl}
  IN IF bad = {} THEN 1 ELSE (CHOOSE i \in bad : \A b \in bad : b <= i) + 1

EndsWith(s, suf) ==
  Len(s) >= Len(suf) /\ SubSeq(s, Len(s) - Len(suf) + 1, Len(s)) = suf

(***************************************************************************)
(* The inline patterns of applyInlineMarkdownShortcut, each matched        *)
(* against the text before the caret as String.prototype.match does with   *)
(* a regular expression anchored by $ (the leftmost start that reaches     *)
(* the end).  A match is [ok, start, inner, url]: start is the index of    *)
(* the first character of match[0].                                        *)
(***************************************************************************)

NoMatch == [ok |-> FALSE, start |-> 0, inner |-> <<>>, url |-> <<>>]

Matched(start, inner, url) == [ok |-> TRUE, start |-> start, inner |-> inner, url |-> url]

\* open inner close $, where inner is one or more characters outside excl and
\* open and close are literal texts.
MatchDelimited(s, open, close, excl) ==
  LET n == Len(s)
      j == n - Len(close)
      k == RunStart(s, j, excl)
  IN IF EndsWith(s, close) /\ j >= 1 /\ k <= j /\ k - Len(open) >= 1
        /\ SubSeq(s, k - Len(open), k - 1) = open
     THEN Matched(k - Len(open), SubSeq(s, k, j), <<>>)
     ELSE NoMatch

\* A recognizer without the bold pattern: ** never matches.
MatchBoldNever(s) == NoMatch

\* /\*\*([^*\n][^*\n]*?)\*\*$/
MatchBold(s) == MatchDelimited(s, <<"*", "*">>, <<"*", "*">>, {"*", "NL"})

\* /(?<!\*)\*([^*\n]+)\*$/
MatchItalicStar(s) ==
  LET m == MatchDelimited(s, <<"*">>, <<"*">>, {"*", "NL"})
  IN IF m.ok /\ (m.start = 1 \/ s[m.start - 1] # "*") THEN m ELSE NoMatch

\* /(?<!_)_([^_\n]+)_$/
MatchItalicUnderscore(s) ==
  LET m == MatchDelimited(s, <<"_">>, <<"_">>, {"_", "NL"})
  IN IF m.ok /\ (m.start = 1 \/ s[m.start - 1] # "_") THEN m ELSE NoMatch

\* /(~~|~f~f)([^~~f\n]+)\1$/
MatchStrike(s) ==
  LET a == MatchDelimited(s, <<"~", "~">>, <<"~", "~">>, {"~", "~f", "NL"})
      b == MatchDelimited(s, <<"~f", "~f">>, <<"~f", "~f">>, {"~", "~f", "NL"})
  IN IF a.ok THEN a ELSE b

\* /BT([^BT\n]+)BT$/, BT the backtick
MatchCode(s) == MatchDelimited(s, <<"BT">>, <<"BT">>, {"BT", "NL"})

\* /\+\+([^+\n]+)\+\+$/
MatchUnderlinePlus(s) == MatchDelimited(s, <<"+", "+">>, <<"+", "+">>, {"+", "NL"})

\* /<u>([^<\n]+)<\/u>$/i
MatchUnderlineTag(s) ==
  LET n == Len(s)
      j == n - 4
      i == RunStart(s, j, {"<"}) - 1
  IN IF n >= 8 /\ s[n - 3] = "<" /\ s[n - 2] = "/" /\ s[n - 1] \in {"u", "U"} /\ s[n] = ">"
        /\ i >= 1 /\ i + 3 <= j /\ s[i + 1] \in {"u", "U"} /\ s[i + 2] = ">"
        /\ \A x \in (i + 3)..j : s[x] # "NL"
     THEN Matched(i, SubSeq(s, i + 3, j), <<>>)
     ELSE NoMatch

\* /\[([^\]\n]+)\]\(([^)\s]+)\)$/
MatchLink(s) ==
  LET n == Len(s)
      Close(i) == LET cs == {m \in (i + 1)..n : s[m] = "]"}
                  IN IF cs = {} THEN 0 ELSE CHOOSE m \in cs : \A c \in cs : m <= c
      Good(i) == LET m == Close(i)
                 IN /\ s[i] = "["
                    /\ m > i + 1
                    /\ \A x \in (i + 1)..(m - 1) : s[x] # "NL"
                    /\ m + 3 <= n
                    /\ s[m + 1] = "("
                    /\ s[n] = ")"
                    /\ \A x \in (m + 2)..(n - 1) : s[x] \notin ({")"} \cup WhiteSpace)
      starts == {i \in 1..n : Good(i)}
  IN IF starts = {} THEN NoMatch
     ELSE LET i == CHOOSE x \in starts : \A y \in starts : x <= y
              m == Close(i)
          IN Matched(i, SubSeq(s, i + 1, m - 1), SubSeq(s, m + 2, n - 1))

(***************************************************************************)
(* The tree                                                                *)
(***************************************************************************)

Txt(s) == [tag |-> "#text", data |-> s, kids |-> <<>>, attr |-> <<>>, id |-> 0]

El(tag, kids) == [tag |-> tag, data |-> <<>>, kids |-> kids, attr |-> <<>>, id |-> 0]

ElA(tag, attr, kids) == [tag |-> tag, data |-> <<>>, kids |-> kids, attr |-> attr, id |-> 0]

\* An element other handlers keep a reference to (an image, a link).
ElId(tag, attr, id, kids) == [tag |-> tag, data |-> <<>>, kids |-> kids, attr |-> attr, id |-> id]

Br == El("br", <<>>)

IsText(n) == n.tag = "#text"

\* The selector of getCurrentBlock's closest() and the tag list of ensureIsolatedBlock.
\* The editor element is itself a div.
BlockTags == {"p", "div", "h1", "h2", "h3", "h4", "h5", "h6", "blockquote", "li"}

\* inlineTags of ensureCaretOutsideInlineFormatting and isCaretInsideInlineFormatting.
InlineTags == {"strong", "b", "em", "i", "s", "del", "code", "a", "u", "span", "font"}

RECURSIVE NodeAt(_, _)
NodeAt(n, p) == IF p = <<>> THEN n ELSE NodeAt(n.kids[Head(p)], Tail(p))

RECURSIVE ValidPath(_, _)
ValidPath(n, p) ==
  p = <<>> \/ (Head(p) \in 1..Len(n.kids) /\ ValidPath(n.kids[Head(p)], Tail(p)))

RECURSIVE SetNode(_, _, _)
\* The tree n with the node at path p replaced by m.
SetNode(n, p, m) ==
  IF p = <<>> THEN m
  ELSE [n EXCEPT !.kids = [@ EXCEPT ![Head(p)] = SetNode(@, Tail(p), m)]]

SetKids(n, p, ks) == SetNode(n, p, [NodeAt(n, p) EXCEPT !.kids = ks])

Parent(p) == SubSeq(p, 1, Len(p) - 1)

Last(p) == p[Len(p)]

\* The sequence s with its elements i..j replaced by the sequence new.
Splice(s, i, j, new) == SubSeq(s, 1, i - 1) \o new \o SubSeq(s, j + 1, Len(s))

\* The tree n with the child at path p replaced by the nodes new.
ReplaceChild(n, p, new) ==
  SetKids(n, Parent(p), Splice(NodeAt(n, Parent(p)).kids, Last(p), Last(p), new))

IsPrefix(p, q) == Len(p) <= Len(q) /\ SubSeq(q, 1, Len(p)) = p

RECURSIVE TextOf(_)
\* Node.textContent
TextOf(n) ==
  IF IsText(n) THEN n.data ELSE Concat([i \in 1..Len(n.kids) |-> TextOf(n.kids[i])])

RECURSIVE TextBefore(_, _, _)
\* Range.toString() of the range from the start of n's contents to the boundary
\* point (p, o), p relative to n.
TextBefore(n, p, o) ==
  IF p = <<>>
  THEN IF IsText(n) THEN SubSeq(n.data, 1, o)
       ELSE Concat([i \in 1..o |-> TextOf(n.kids[i])])
  ELSE Concat([i \in 1..(Head(p) - 1) |-> TextOf(n.kids[i])])
         \o TextBefore(n.kids[Head(p)], Tail(p), o)

\* Element.innerHTML.trim() is the empty string: no child but white-space text.
BlankHtml(n) ==
  \A i \in 1..Len(n.kids) : IsText(n.kids[i]) /\ Trim(n.kids[i].data) = <<>>

\* The paths of the ancestors of the node at p, itself included, innermost first.
Ancestors(p) == [i \in 1..(Len(p) + 1) |-> SubSeq(p, 1, Len(p) + 1 - i)]

\* The element a node stands for in closest() and the parent walks: the node
\* itself when it is an element, its parent when it is a text node.
ElementOf(n, p) == IF IsText(NodeAt(n, p)) THEN Parent(p) ELSE p

(***************************************************************************)
(* The selection: rangeCount n (0 or 1) and the range's boundary points.   *)
(* The anchor is the start of the range.                                   *)
(***************************************************************************)

NoSel == [n |-> 0, sc |-> <<>>, so |-> 0, ec |-> <<>>, eo |-> 0]

Caret(p, o) == [n |-> 1, sc |-> p, so |-> o, ec |-> p, eo |-> o]

Range(p, o, q, r) == [n |-> 1, sc |-> p, so |-> o, ec |-> q, eo |-> r]

\* Selection.isCollapsed
IsCollapsed(s) == s.n = 0 \/ (s.sc = s.ec /\ s.so = s.eo)

(***************************************************************************)
(* The engine.  A handler's run is threaded through a record m:            *)
(*   dom        the editor element (a div) with the tree below it          *)
(*   sel        the selection                                              *)
(*   typing     the host's typing style: the commands toggled for the      *)
(*              next input, against what the caret's context gives         *)
(*   flag       shouldResetInlineTypingRef.current                         *)
(*   prevented  e.preventDefault() was called                              *)
(*   inputs     the number of handleInput() calls (onChange reports)       *)
(*   inl, trig  the inline pattern (1..8, 0: none) and the block trigger   *)
(*              (<<>>: none) the recognizers matched                       *)
(*   nid        the next identity for an element the handlers refer to     *)
(*   img, link  selectedImage and editingLink.element (identities, 0: null)*)
(*   hb         the host counts a heading as bold (queryCommandState)      *)
(*   content    the content prop: the attached document's HTML, as the     *)
(*              tree it serializes (innerHTML)                             *)
(*   internal   isInternalChange.current                                   *)
(*   focused    document.activeElement is the editor                       *)
(*   ha         the host resolves a caret just after an inline element     *)
(*              into that element (the affinity lines 558-564 speak of)    *)
(***************************************************************************)

\* No node: the null a lookup returns.
Null == <<0>>

RECURSIVE InnerHTML(_), SerializeKids(_, _)
\* element.innerHTML, as the tree the string parses to: a string does not
\* tell adjacent text nodes apart, holds no empty text node and no node
\* identity.
InnerHTML(n) ==
  IF IsText(n) THEN [n EXCEPT !.id = 0]
  ELSE [n EXCEPT !.id = 0, !.kids = SerializeKids(@, <<>>)]

SerializeKids(ks, acc) ==
  IF ks = <<>> THEN acc
  ELSE LET k == InnerHTML(Head(ks))
       IN IF IsText(k) /\ k.data = <<>> THEN SerializeKids(Tail(ks), acc)
          ELSE IF IsText(k) /\ acc # <<>> /\ IsText(acc[Len(acc)])
          THEN SerializeKids(Tail(ks), [acc EXCEPT ![Len(acc)].data = @ \o k.data])
          ELSE SerializeKids(Tail(ks), Append(acc, k))

ToggleCmds == {"bold", "italic", "underline", "strikeThrough"}

\* selection.removeAllRanges(); selection.addRange(r): the host drops its
\* typing style when the selection is set.
SetSel(m, s) == [m EXCEPT !.sel = s, !.typing = {}]

\* handleInput: onChange(editor.innerHTML)
HandleInput(m) == [m EXCEPT !.inputs = @ + 1]

\* element.closest('p, div, h1, h2, h3, h4, h5, h6, blockquote, li') from the
\* node at p; the editor element, a div, ends the walk.
ClosestBlock(d, p) ==
  LET as == Ancestors(ElementOf(d, p))
      hits == {i \in 1..Len(as) : NodeAt(d, as[i]).tag \in BlockTags}
  IN as[CHOOSE i \in hits : \A j \in hits : i <= j]

\* wrapTextNodeAsParagraph: the root's text child i moves into a new <p>.
WrapTextNodeAsParagraph(m, i, caretOffset) ==
  LET t == m.dom.kids[i]
      safe == IF caretOffset > Len(t.data) THEN Len(t.data) ELSE caretOffset
  IN [m |-> SetSel([m EXCEPT !.dom = SetNode(@, <<i>>, El("p", <<t>>))],
                   Caret(<<i, 1>>, safe)),
      blk |-> <<i>>]

\* createParagraphAtCaret: a <p><br></p> before the child after the caret; a
\* <br> next to the caret is removed.
CreateParagraphAtCaret(m, o) ==
  LET ks == m.dom.kids
      hasBefore == o >= 1 /\ o <= Len(ks)
      hasAt == o + 1 <= Len(ks)
      withP == Splice(ks, o + 1, o, <<El("p", <<Br>>)>>)
      dropBefore == hasBefore /\ ks[o].tag = "br"
      dropAt == ~dropBefore /\ hasAt /\ ks[o + 1].tag = "br"
      done == IF dropBefore THEN Splice(withP, o, o, <<>>)
              ELSE IF dropAt THEN Splice(withP, o + 2, o + 2, <<>>)
              ELSE withP
      at == IF dropBefore THEN o ELSE o + 1
  IN [m |-> SetSel([m EXCEPT !.dom = [@ EXCEPT !.kids = done]], Caret(<<at>>, 0)),
      blk |-> <<at>>]

\* getCurrentBlock: the block of the anchor; a caret directly in the editor
\* element gets a paragraph made for it in some cases, and null in the others.
GetCurrentBlock(m) ==
  IF m.sel.n = 0 THEN [m |-> m, blk |-> Null]
  ELSE
    LET d == m.dom
        b == ClosestBlock(d, m.sel.sc)
        sc == m.sel.sc
        so == m.sel.so
        ks == d.kids
    IN IF b # <<>> THEN [m |-> m, blk |-> b]
       ELSE IF Len(sc) = 1 /\ IsText(NodeAt(d, sc))
       THEN WrapTextNodeAsParagraph(m, sc[1], so)
       ELSE IF sc = <<>> /\ (  (so >= 1 /\ so <= Len(ks) /\ ks[so].tag = "br")
                            \/ (so + 1 <= Len(ks) /\ ks[so + 1].tag = "br"))
       THEN CreateParagraphAtCaret(m, so)
       ELSE IF sc = <<>> /\ so + 1 <= Len(ks) /\ IsText(ks[so + 1])
       THEN WrapTextNodeAsParagraph(m, so + 1, 0)
       ELSE IF sc = <<>> /\ so + 1 > Len(ks)
       THEN CreateParagraphAtCaret(m, so)
       ELSE IF Len(ks) = 0
       THEN CreateParagraphAtCaret(m, 0)
       ELSE [m |-> m, blk |-> Null]

\* getTextBeforeCaretInBlock
GetTextBeforeCaretInBlock(m, blk) ==
  IF m.sel.n = 0 THEN <<>>
  ELSE ReplaceNbsp(TextBefore(NodeAt(m.dom, blk),
                              SubSeq(m.sel.ec, Len(blk) + 1, Len(m.sel.ec)), m.sel.eo))

\* deleteCharsBeforeCaret: [m, ok].  The live range follows the deletion.
DeleteCharsBeforeCaret(m, count) ==
  LET ec == m.sel.ec
      eo == m.sel.eo
      t == NodeAt(m.dom, ec)
  IN IF count <= 0 \/ m.sel.n = 0 THEN [m |-> m, ok |-> FALSE]
     ELSE IF ~IsText(t) THEN [m |-> m, ok |-> FALSE]
     ELSE IF eo < count THEN [m |-> m, ok |-> FALSE]
     ELSE [m |-> [m EXCEPT !.dom = SetNode(@, ec, [t EXCEPT !.data = Splice(@, eo - count + 1, eo, <<>>)]),
                           !.sel = [@ EXCEPT !.so = IF m.sel.sc = ec /\ @ > eo - count THEN eo - count ELSE @,
                                             !.eo = eo - count]],
           ok |-> TRUE]

\* deleteMarkdownTrigger
DeleteMarkdownTrigger(m, triggerText) == DeleteCharsBeforeCaret(m, Len(triggerText))

RECURSIVE SplitAt(_, _, _)
\* Range.extractContents() from the boundary point (p, o) to the end of n:
\* left is n with what precedes the point, right the clone with the rest.
SplitAt(n, p, o) ==
  IF p = <<>>
  THEN IF IsText(n)
       THEN [left |-> [n EXCEPT !.data = SubSeq(@, 1, o)],
             right |-> [n EXCEPT !.data = SubSeq(@, o + 1, Len(@)), !.id = 0]]
       ELSE [left |-> [n EXCEPT !.kids = SubSeq(@, 1, o)],
             right |-> [n EXCEPT !.kids = SubSeq(@, o + 1, Len(@)), !.id = 0]]
  ELSE LET i == Head(p)
           r == SplitAt(n.kids[i], Tail(p), o)
       IN [left |-> [n EXCEPT !.kids = SubSeq(@, 1, i - 1) \o <<r.left>>],
           right |-> [n EXCEPT !.kids = <<r.right>> \o SubSeq(@, i + 1, Len(@)), !.id = 0]]

RECURSIVE DropTrailingBr(_)
\* while (blockEl.lastChild is a <br>) remove it
DropTrailingBr(ks) ==
  IF ks # <<>> /\ ks[Len(ks)].tag = "br" THEN DropTrailingBr(SubSeq(ks, 1, Len(ks) - 1)) ELSE ks

\* element.innerHTML = '<br>' when its innerHTML is blank
BrIfBlank(n) == IF BlankHtml(n) THEN [n EXCEPT !.kids = <<Br>>] ELSE n

\* The nearest block element at or above the range's start, below the editor.
BlockBelowEditor(d, p) ==
  LET as == Ancestors(p)
      hits == {i \in 1..Len(as) : as[i] # <<>> /\ ~IsText(NodeAt(d, as[i]))
                                   /\ NodeAt(d, as[i]).tag \in BlockTags}
  IN IF hits = {} THEN Null ELSE as[CHOOSE i \in hits : \A j \in hits : i <= j]

\* ensureIsolatedBlock: [m, blk].  A block with text before the caret is split:
\* what follows the caret moves to a new <p> after it.
EnsureIsolatedBlock(m) ==
  IF m.sel.n = 0 THEN [m |-> m, blk |-> Null]
  ELSE
    LET d == m.dom
        b == BlockBelowEditor(d, m.sel.sc)
    IN IF b = Null THEN [m |-> m, blk |-> Null]
       ELSE
         LET rel == SubSeq(m.sel.sc, Len(b) + 1, Len(m.sel.sc))
             blockEl == NodeAt(d, b)
             textBefore == Trim(TextBefore(blockEl, rel, m.sel.so))
             cut == SplitAt(blockEl, rel, m.sel.so)
             kept == BrIfBlank([cut.left EXCEPT !.kids = DropTrailingBr(@)])
             newBlock == BrIfBlank(El("p", cut.right.kids))
             nb == Parent(b) \o <<Last(b) + 1>>
         IN IF textBefore = <<>> THEN [m |-> m, blk |-> b]
            ELSE [m |-> SetSel([m EXCEPT !.dom = ReplaceChild(@, b, <<kept, newBlock>>)],
                               Caret(nb, 0)),
                  blk |-> nb]

\* convertBlockTag: a new element of the tag takes the block's children and its place.
ConvertBlockTag(m, blk, newTag) ==
  SetSel([m EXCEPT !.dom = SetNode(@, blk, BrIfBlank(El(newTag, NodeAt(m.dom, blk).kids)))],
         Caret(blk, 0))

\* The list branch of applyMarkdownShortcut: <ul> or <ol> with one <li><br></li>
\* replaces the block, the caret in the item.
ReplaceByList(m, blk, listTag) ==
  SetSel([m EXCEPT !.dom = SetNode(@, blk, El(listTag, <<El("li", <<Br>>)>>))],
         Caret(blk \o <<1>>, 0))

(***************************************************************************)
(* The host's command state and commands (document.queryCommandState and   *)
(* document.execCommand), as far as the handlers use them.  A command that  *)
(* changes the tree makes the host fire the editor's input event, whose    *)
(* listener is handleInput.                                                *)
(***************************************************************************)

\* The tags of the elements at or above the node at p, the editor excluded.
TagsAbove(d, p) ==
  {NodeAt(d, SubSeq(p, 1, k)).tag : k \in 1..Len(p)}

\* The run the host makes for input typed under a non-empty typing style:
\* a <span> whose attribute lists the toggled commands.
TypingOrder == <<"bold", "italic", "underline", "strikeThrough", "foreColor", "hiliteColor">>

TypingRun(typing, kids) ==
  ElA("span", <<"toggle">> \o SelectSeq(TypingOrder, LAMBDA c : c \in typing), kids)

\* What one element gives the toggles of the content below it.  Whether a
\* heading counts as bold is the host's choice (hb).
ContextStep(n, acc, hb) ==
  CASE n.tag \in {"strong", "b"} -> acc \cup {"bold"}
    [] n.tag \in {"h1", "h2", "h3", "h4", "h5", "h6"} -> IF hb THEN acc \cup {"bold"} ELSE acc
    [] n.tag \in {"em", "i"} -> acc \cup {"italic"}
    [] n.tag = "u" -> acc \cup {"underline"}
    [] n.tag \in {"s", "del"} -> acc \cup {"strikeThrough"}
    [] n.tag = "span" /\ n.attr # <<>> /\ n.attr[1] = "toggle" ->
         LET t == {n.attr[k] : k \in 2..Len(n.attr)} IN (acc \ t) \cup (t \ acc)
    [] OTHER -> acc

RECURSIVE ContextFrom(_, _, _, _, _)
ContextFrom(d, p, k, acc, hb) ==
  IF k > Len(p) THEN acc
  ELSE ContextFrom(d, p, k + 1, ContextStep(NodeAt(d, SubSeq(p, 1, k)), acc, hb), hb)

\* What the caret's context gives each toggle.
ContextCmds(d, p, hb) == ContextFrom(d, p, 1, {}, hb)

\* document.queryCommandState(c), c a toggle
QueryCommandState(m, c) ==
  m.sel.n = 1 /\ ((c \in ContextCmds(m.dom, m.sel.sc, m.hb)) # (c \in m.typing))

\* document.queryCommandState('insertUnorderedList' / 'insertOrderedList')
QueryListState(m, listTag) == m.sel.n = 1 /\ listTag \in TagsAbove(m.dom, m.sel.sc)

\* document.execCommand(c) with a caret: the toggle is armed (or disarmed) for
\* the next input.
ExecToggle(m, c) ==
  IF m.sel.n = 0 THEN m
  ELSE [m EXCEPT !.typing = IF c \in @ THEN @ \ {c} ELSE @ \cup {c}]

\* document.execCommand('insertParagraph'): the caret's block is split at the
\* caret, what follows moves to a new block after it (a list item in a list,
\* a paragraph elsewhere); a caret in no block gets a new paragraph after the
\* root child it is in.
HostInsertParagraph(m) ==
  IF m.sel.n = 0 THEN m
  ELSE
    LET d == m.dom
        b == BlockBelowEditor(d, m.sel.sc)
    IN IF b = Null
       THEN LET at == IF m.sel.sc = <<>> THEN m.sel.so ELSE Head(m.sel.sc)
            IN HandleInput(SetSel([m EXCEPT !.dom = [@ EXCEPT !.kids = Splice(@, at + 1, at, <<El("p", <<Br>>)>>)]],
                                  Caret(<<at + 1>>, 0)))
       ELSE LET rel == SubSeq(m.sel.sc, Len(b) + 1, Len(m.sel.sc))
                cut == SplitAt(NodeAt(d, b), rel, m.sel.so)
                tag == IF NodeAt(d, b).tag = "li" THEN "li" ELSE "p"
                nb == Parent(b) \o <<Last(b) + 1>>
            IN HandleInput(SetSel([m EXCEPT !.dom = ReplaceChild(@, b, <<BrIfBlank(cut.left),
                                                                       BrIfBlank(El(tag, cut.right.kids))>>)],
                                  Caret(nb, 0)))

\* document.execCommand('insertHorizontalRule'): an <hr> after the caret's
\* block (after the root child of a caret in no block).
HostInsertHorizontalRule(m) ==
  IF m.sel.n = 0 THEN m
  ELSE
    LET d == m.dom
        b == BlockBelowEditor(d, m.sel.sc)
    IN IF b = Null
       THEN LET at == IF m.sel.sc = <<>> THEN m.sel.so ELSE Head(m.sel.sc)
            IN HandleInput([m EXCEPT !.dom = [@ EXCEPT !.kids = Splice(@, at + 1, at, <<El("hr", <<>>)>>)]])
       ELSE HandleInput([m EXCEPT !.dom = ReplaceChild(@, b, <<NodeAt(d, b), El("hr", <<>>)>>)])

(***************************************************************************)
(* The typing-format tracker                                               *)
(***************************************************************************)

RECURSIVE ToggleOff(_, _)
\* for (command of commands) if (queryCommandState(command)) execCommand(command)
ToggleOff(m, commands) ==
  IF commands = <<>> THEN m
  ELSE ToggleOff(IF QueryCommandState(m, Head(commands)) THEN ExecToggle(m, Head(commands)) ELSE m,
                 Tail(commands))

\* clearInlineTypingState: bold is left alone.
ClearInlineTypingState(m) == ToggleOff(m, <<"italic", "strikeThrough", "underline">>)

\* clearColorTypingState: execCommand foreColor / hiliteColor with the default
\* colours, which a caret takes into the typing style.
ClearColorTypingState(m) ==
  IF m.sel.n = 0 THEN m ELSE [m EXCEPT !.typing = @ \cup {"foreColor", "hiliteColor"}]

\* isSelectionInsideHeading
IsSelectionInsideHeading(m) ==
  m.sel.n = 1 /\ TagsAbove(m.dom, m.sel.sc) \cap {"h1", "h2", "h3"} # {}

\* isCaretInsideInlineFormatting
IsCaretInsideInlineFormatting(m) ==
  m.sel.n = 1 /\ TagsAbove(m.dom, m.sel.sc) \cap InlineTags # {}

\* ensureCaretOutsideInlineFormatting: the caret moves to just after the
\* outermost inline element above the anchor.
EnsureCaretOutsideInlineFormatting(m) ==
  IF m.sel.n = 0 THEN m
  ELSE
    LET sc == m.sel.sc
        hits == {k \in 1..Len(sc) : NodeAt(m.dom, SubSeq(sc, 1, k)).tag \in InlineTags}
    IN IF hits = {} THEN m
       ELSE LET k == CHOOSE x \in hits : \A y \in hits : x <= y
            IN SetSel(m, Caret(SubSeq(sc, 1, k - 1), sc[k]))

\* A paragraph break that repeats the current block's element instead of
\* making a <p>.
InsertSameBlockAfter(g) ==
  IF g.blk = Null \/ g.blk = <<>> THEN [m |-> g.m, ok |-> FALSE]
  ELSE [m |-> SetSel([g.m EXCEPT !.dom = ReplaceChild(@, g.blk, <<NodeAt(g.m.dom, g.blk),
                                                     El(NodeAt(g.m.dom, g.blk).tag, <<Br>>)>>)],
                     Caret(Parent(g.blk) \o <<Last(g.blk) + 1>>, 0)),
        ok |-> TRUE]

\* The body of insertCleanParagraphAfterCurrentBlock, g what getCurrentBlock
\* gave: a <p><br></p> after the block, the caret in it.
InsertParagraphAfter(g) ==
  IF g.blk = Null \/ g.blk = <<>> THEN [m |-> g.m, ok |-> FALSE]
  ELSE [m |-> SetSel([g.m EXCEPT !.dom = ReplaceChild(@, g.blk, <<NodeAt(g.m.dom, g.blk),
                                                     El("p", <<Br>>)>>)],
                     Caret(Parent(g.blk) \o <<Last(g.blk) + 1>>, 0)),
        ok |-> TRUE]

\* insertCleanParagraphAfterCurrentBlock: [m, ok]
InsertCleanParagraphAfterCurrentBlock(m) ==
  IF m.sel.n = 0 THEN [m |-> m, ok |-> FALSE] ELSE InsertParagraphAfter(GetCurrentBlock(m))

(***************************************************************************)
(* The shortcut recognizers                                                *)
(***************************************************************************)

\* tagMap of applyMarkdownShortcut
TagMap(line) ==
  CASE line = <<"#">> -> "h1"
    [] line = <<"#", "#">> -> "h2"
    [] line = <<"#", "#", "#">> -> "h3"
    [] line = <<">">> -> "blockquote"
    [] OTHER -> ""

\* The text after the last line feed before the caret, trimmed.
CurrentLine(m, blk) == Trim(LastLine(GetTextBeforeCaretInBlock(m, blk)))

\* What the key and the line ask for: an element of tagMap, a list, a
\* horizontal rule, "" for nothing.
ShortcutKind(e, line) ==
  IF e.key = " " /\ TagMap(line) # "" THEN TagMap(line)
  ELSE IF e.key = " " /\ (line = <<"-">> \/ line = <<"*">>) THEN "ul"
  ELSE IF e.key = " " /\ line = <<"1", ".">> THEN "ol"
  ELSE IF e.key = "Enter" /\ (line = <<"-", "-", "-">> \/ line = <<"*", "*", "*">>) THEN "hr"
  ELSE ""

\* The conversion of the isolated block iso = [m, blk].  ensureIsolatedBlock
\* finds the block getCurrentBlock found, so the execCommand fallback of the
\* list branches is not taken.
ConvertIsolated(iso, kind) ==
  IF iso.blk = Null THEN iso.m
  ELSE IF kind \in {"ul", "ol"} THEN ReplaceByList(iso.m, iso.blk, kind)
  ELSE ConvertBlockTag(iso.m, iso.blk, kind)

\* A branch of applyMarkdownShortcut after deleteMarkdownTrigger gave
\* del = [m, ok]: [m, ret]
ShortcutAfterDelete(del, line, kind) ==
  IF ~del.ok THEN [m |-> del.m, ret |-> FALSE]
  ELSE [m |-> HandleInput([(IF kind = "hr" THEN HostInsertParagraph(HostInsertHorizontalRule(del.m))
                            ELSE ConvertIsolated(EnsureIsolatedBlock(del.m), kind))
                           EXCEPT !.trig = line]),
        ret |-> TRUE]

\* applyMarkdownShortcut once the current line is known: [m, ret]
ShortcutOnLine(m, e, line) ==
  IF ShortcutKind(e, line) = "" THEN [m |-> m, ret |-> FALSE]
  ELSE ShortcutAfterDelete(DeleteMarkdownTrigger([m EXCEPT !.prevented = TRUE], line),
                           line, ShortcutKind(e, line))

\* applyMarkdownShortcut once getCurrentBlock gave g = [m, blk]: [m, ret]
ShortcutInBlock(g, e) ==
  IF g.blk = Null THEN [m |-> g.m, ret |-> FALSE]
  ELSE ShortcutOnLine(g.m, e, CurrentLine(g.m, g.blk))

\* applyMarkdownShortcut without the test of a collapsed selection.
ApplyMarkdownShortcutOnRange(m, e) ==
  ShortcutInBlock(GetCurrentBlock(m), e)

\* applyMarkdownShortcut: [m, ret]
ApplyMarkdownShortcut(m, e) ==
  IF ~IsCollapsed(m.sel) THEN [m |-> m, ret |-> FALSE]
  ELSE ShortcutInBlock(GetCurrentBlock(m), e)

\* The patterns array: the match of pattern i against the text before the caret.
PatternMatch(i, before) ==
  CASE i = 1 -> MatchBold(before)
    [] i = 2 -> MatchItalicStar(before)
    [] i = 3 -> MatchItalicUnderscore(before)
    [] i = 4 -> MatchStrike(before)
    [] i = 5 -> MatchCode(before)
    [] i = 6 -> MatchUnderlinePlus(before)
    [] i = 7 -> MatchUnderlineTag(before)
    [] i = 8 -> MatchLink(before)

NumPatterns == 8

\* The element each pattern's build makes.
PatternTag(i) ==
  CASE i = 1 -> "strong"
    [] i \in {2, 3} -> "em"
    [] i = 4 -> "s"
    [] i = 5 -> "code"
    [] i \in {6, 7} -> "u"
    [] i = 8 -> "a"

\* resetCommands of each pattern
ResetCommands(i) ==
  CASE i = 1 -> <<"bold">>
    [] i \in {2, 3} -> <<"italic">>
    [] i = 4 -> <<"strikeThrough">>
    [] i \in {6, 7} -> <<"underline">>
    [] OTHER -> <<>>

\* pattern.build(match)
BuildFormatted(i, mt, id) ==
  ElId(PatternTag(i),
       IF i = 8 THEN <<"href">> \o mt.url ELSE IF i = 5 THEN <<"class", "inline-code">> ELSE <<>>,
       IF i = 8 THEN id ELSE 0,
       <<Txt(mt.inner)>>)

\* The first pattern of the array that matches, 0 when none does.
FirstPattern(before) ==
  LET hits == {i \in 1..NumPatterns : PatternMatch(i, before).ok}
  IN IF hits = {} THEN 0 ELSE CHOOSE i \in hits : \A j \in hits : i <= j

\* The caret after the trailing space's text node, at the boundary in the
\* parent, instead of inside the text node.
CaretAtParentBoundary(parent, at) == Caret(parent, at + 2)

\* The caret after a conversion: inside the trailing-space text node, at its end.
CaretAfterConversion(parent, at) == Caret(parent \o <<at + 2>>, 1)

\* The typing-style resets and the flag after a conversion.
ResetAfterConversion(m, i) ==
  LET r == ToggleOff(m, ResetCommands(i))
      inHeading == IsSelectionInsideHeading(r)
  IN [(IF ~inHeading THEN ClearInlineTypingState(r) ELSE r) EXCEPT !.flag = ~inHeading]

\* The replacement of match mt of pattern i: the caret's text node gives way
\* to the text before the match, the formatted node, the trailing space and
\* the text after the caret; the caret goes into the trailing space.
ReplaceMatch(m, i, mt) ==
  LET sc == m.sel.sc
      textNode == NodeAt(m.dom, sc)
      head == [textNode EXCEPT !.data = SubSeq(@, 1, mt.start - 1)]
      rest == Txt(SubSeq(textNode.data, m.sel.so + 1, Len(textNode.data)))
  IN SetSel([m EXCEPT !.prevented = TRUE,
                      !.dom = ReplaceChild(@, sc, <<head, BuildFormatted(i, mt, m.nid), Txt(<<" ">>), rest>>),
                      !.inl = i,
                      !.nid = IF i = 8 THEN @ + 1 ELSE @],
            CaretAfterConversion(Parent(sc), Last(sc)))

\* The loop of applyInlineMarkdownShortcut, i the first pattern that matches
\* before: [m, ret]
ConvertFirstMatch(m, i, before) ==
  IF i = 0 THEN [m |-> m, ret |-> FALSE]
  ELSE [m |-> HandleInput(ResetAfterConversion(ReplaceMatch(m, i, PatternMatch(i, before)), i)),
        ret |-> TRUE]

\* textNode.data.slice(0, offset)
DataBeforeCaret(m) == SubSeq(NodeAt(m.dom, m.sel.sc).data, 1, m.sel.so)

\* applyInlineMarkdownShortcut: [m, ret]
ApplyInlineMarkdownShortcut(m, e) ==
  IF e.key # " " THEN [m |-> m, ret |-> FALSE]
  ELSE IF m.sel.n = 0 \/ ~IsCollapsed(m.sel) THEN [m |-> m, ret |-> FALSE]
  ELSE IF ~IsText(NodeAt(m.dom, m.sel.sc)) THEN [m |-> m, ret |-> FALSE]
  ELSE ConvertFirstMatch(m, FirstPattern(DataBeforeCaret(m)), DataBeforeCaret(m))

(***************************************************************************)
(* The toolbar commands                                                    *)
(***************************************************************************)

\* The text a selection holds (Selection.toString()), for the ranges the model
\* draws: inside one text node, or over whole children of one element.
SelectedText(m) ==
  LET n == NodeAt(m.dom, m.sel.sc)
  IN IF m.sel.n = 0 THEN <<>>
     ELSE IF IsText(n) THEN SubSeq(n.data, m.sel.so + 1, m.sel.eo)
     ELSE Concat([i \in 1..(m.sel.eo - m.sel.so) |-> TextOf(n.kids[m.sel.so + i])])

\* range.extractContents(); span.appendChild(extracted); range.insertNode(span):
\* the tree with the selected content moved into the element wrapper, and the
\* path of the wrapper.  A range inside a text node splits the node around it.
WrapRange(d, sel, wrapper) ==
  LET n == NodeAt(d, sel.sc)
  IN IF IsText(n)
     THEN [dom |-> ReplaceChild(d, sel.sc,
                      <<[n EXCEPT !.data = SubSeq(@, 1, sel.so)],
                        [wrapper EXCEPT !.kids = <<Txt(SubSeq(n.data, sel.so + 1, sel.eo))>>],
                        Txt(SubSeq(n.data, sel.eo + 1, Len(n.data)))>>),
           at |-> Parent(sel.sc) \o <<Last(sel.sc) + 1>>]
     ELSE [dom |-> SetKids(d, sel.sc,
                      Splice(n.kids, sel.so + 1, sel.eo,
                             <<[wrapper EXCEPT !.kids = SubSeq(n.kids, sel.so + 1, sel.eo)]>>)),
           at |-> sel.sc \o <<sel.so + 1>>]

\* wrapSelectionWithStyle: the selection goes into one <span> carrying the
\* style; the caret is set just after the span.
WrapSelectionWithStyle(m, property, value) ==
  IF m.sel.n = 0 \/ IsCollapsed(m.sel) THEN m
  ELSE LET w == WrapRange(m.dom, m.sel, ElA("span", <<property, value>>, <<>>))
       IN SetSel([m EXCEPT !.dom = w.dom], Caret(Parent(w.at), Last(w.at)))

\* applyStyle for 'color' and 'highlight'
ApplyColorStyle(m, property, value) ==
  IF IsCollapsed(m.sel) \/ SelectedText(m) = <<>> THEN m
  ELSE ClearInlineTypingState(
         EnsureCaretOutsideInlineFormatting(WrapSelectionWithStyle(m, property, value)))

\* applyStyle for the inline toggles: execCommand(command)
ApplyToggleStyle(m, style) ==
  ExecToggle(m, IF style = "strikethrough" THEN "strikeThrough" ELSE style)

FONT_SIZE_STEP == 4
MIN_FONT_SIZE == 10
MAX_FONT_SIZE == 72
DEFAULT_FONT_SIZE == 16

RECURSIVE Decimal(_)
\* `${n}`: the decimal digits of n
Decimal(n) ==
  LET digit == <<"0", "1", "2", "3", "4", "5", "6", "7", "8", "9">>[(n % 10) + 1]
  IN IF n < 10 THEN <<digit>> ELSE Append(Decimal(n \div 10), digit)

RECURSIVE ParseInt(_, _)
\* parseInt(s, 10), acc the value of the digits read: the leading digits
\* count, what follows them does not.  0 stands for NaN as well: the caller
\* takes neither.
ParseInt(s, acc) ==
  IF s = <<>> \/ Head(s) \notin {"0", "1", "2", "3", "4", "5", "6", "7", "8", "9"} THEN acc
  ELSE ParseInt(Tail(s), 10 * acc + (CHOOSE v \in 0..9 : Decimal(v) = <<Head(s)>>))

\* getFontSizeFromNode(node), node at path p: the computed size of the first
\* element from the node up, the editor excluded.  An element computes the
\* size of the nearest font-size style at or above it; without one, the size
\* the host's default style sheet gives (headings 32, 24, 18; 16 otherwise).
GetFontSizeFromNode(d, p) ==
  LET el == IF IsText(NodeAt(d, p)) THEN Parent(p) ELSE p
      size(k) == LET a == NodeAt(d, SubSeq(el, 1, k)).attr
                 IN IF a # <<>> /\ a[1] = "fontSize" THEN ParseInt(Tail(a), 0) ELSE 0
      sized == {k \in 1..Len(el) : size(k) > 0}
      tags == TagsAbove(d, el)
  IN IF el = <<>> THEN DEFAULT_FONT_SIZE
     ELSE IF sized # {} THEN size(CHOOSE k \in sized : \A j \in sized : j <= k)
     ELSE IF "h1" \in tags THEN 32
     ELSE IF "h2" \in tags THEN 24
     ELSE IF "h3" \in tags THEN 18
     ELSE DEFAULT_FONT_SIZE

\* applyStyle for 'fontSize', 'fontSizeIncrease' and 'fontSizeDecrease': a
\* <span class="font-size-span"> of the size, holding the selected text as its
\* textContent, takes the selection's place and is selected; handleInput().
ApplyFontSize(m, style, value) ==
  LET currentSize == GetFontSizeFromNode(m.dom, m.sel.sc)
      up == currentSize + FONT_SIZE_STEP
      down == currentSize - FONT_SIZE_STEP
      px == CASE style = "fontSize" -> value
              [] style = "fontSizeIncrease" ->
                   Decimal(IF up < MAX_FONT_SIZE THEN up ELSE MAX_FONT_SIZE) \o <<"p", "x">>
              [] style = "fontSizeDecrease" ->
                   Decimal(IF down > MIN_FONT_SIZE THEN down ELSE MIN_FONT_SIZE) \o <<"p", "x">>
      text == SelectedText(m)
      kids == IF text = <<>> THEN <<>> ELSE <<Txt(text)>>
      w == WrapRange(m.dom, m.sel, ElA("span", <<"fontSize">> \o px, <<>>))
  IN HandleInput(SetSel([m EXCEPT !.dom = SetKids(w.dom, w.at, kids)],
                        Range(w.at, 0, w.at, Len(kids))))

\* applyStyle for 'code': a <code class="inline-code"> holding the selected
\* text as its textContent takes the selection's place; the range is left
\* around the element.
ApplyInlineCode(m) ==
  LET text == SelectedText(m)
      kids == IF text = <<>> THEN <<>> ELSE <<Txt(text)>>
      w == WrapRange(m.dom, m.sel, ElA("code", <<"class", "inline-code">>, <<>>))
  IN SetSel([m EXCEPT !.dom = SetKids(w.dom, w.at, kids)],
            Range(Parent(w.at), Last(w.at) - 1, Parent(w.at), Last(w.at)))

\* applyStyle: getRangeAt(0) throws without a range, and the handler ends
\* there; otherwise the style's case runs, then handleInput().
ApplyStyle(m, style, value) ==
  IF m.sel.n = 0 THEN m
  ELSE IF style \in {"fontSize", "fontSizeIncrease", "fontSizeDecrease"} THEN ApplyFontSize(m, style, value)
  ELSE HandleInput(
         CASE style \in {"bold", "italic", "underline", "strikethrough"} -> ApplyToggleStyle(m, style)
           [] style = "color" -> ApplyColorStyle(m, "color", value)
           [] style = "highlight" -> ApplyColorStyle(m, "backgroundColor", value)
           [] style = "code" -> ApplyInlineCode(m)
           [] OTHER -> m)

(***************************************************************************)
(* handleKeyDown.  A key event is [key, shift, ctrl, composing]: composing  *)
(* is e.nativeEvent.isComposing.                                           *)
(***************************************************************************)

InList(m) == QueryListState(m, "ul") \/ QueryListState(m, "ol")

\* if (!insertCleanParagraphAfterCurrentBlock()) execCommand('insertParagraph')
OrHostParagraph(ins) == IF ins.ok THEN ins.m ELSE HostInsertParagraph(ins.m)

\* The clean paragraph break of handleKeyDown: the caret leaves the inline
\* formatting, the typing styles are reset, a new <p> follows the block.
CleanParagraphBreak(m) ==
  HandleInput([OrHostParagraph(InsertCleanParagraphAfterCurrentBlock(
                 ClearColorTypingState(ClearInlineTypingState(
                   EnsureCaretOutsideInlineFormatting([m EXCEPT !.prevented = TRUE])))))
               EXCEPT !.flag = FALSE])

\* The second Enter branch: break out of the inline formatting, then the
\* host's insertParagraph.
BreakOutOfInline(m) ==
  HandleInput([HostInsertParagraph(ClearInlineTypingState(
                 EnsureCaretOutsideInlineFormatting([m EXCEPT !.prevented = TRUE])))
               EXCEPT !.flag = FALSE])

\* The Ctrl / Meta keys
CtrlKey(m, e) ==
  IF e.key \in {"b", "i", "u"}
  THEN ApplyStyle([m EXCEPT !.prevented = TRUE],
                  CASE e.key = "b" -> "bold" [] e.key = "i" -> "italic" [] e.key = "u" -> "underline",
                  <<>>)
  ELSE IF e.key = "s" THEN [m EXCEPT !.prevented = TRUE]
  ELSE m

\* execCommand('insertHTML', '&nbsp;&nbsp;&nbsp;&nbsp;') with a caret in a text
\* node: four no-break spaces at the caret; the host reports the input.
TabKey(m, e) ==
  LET t == NodeAt(m.dom, m.sel.sc)
      four == <<"NBSP", "NBSP", "NBSP", "NBSP">>
  IN IF e.key # "Tab" THEN m
     ELSE IF m.sel.n = 0 \/ ~IsCollapsed(m.sel) \/ ~IsText(t) THEN [m EXCEPT !.prevented = TRUE]
     ELSE HandleInput([m EXCEPT !.prevented = TRUE,
                                !.dom = SetNode(@, m.sel.sc,
                                          [t EXCEPT !.data = Splice(@, m.sel.so + 1, m.sel.so, four)]),
                                !.sel = Caret(m.sel.sc, m.sel.so + 4)])

\* handleKeyDown after applyMarkdownShortcut gave blk = [m, ret]: the Ctrl
\* keys, Tab.
AfterBlockShortcut(blk, e) ==
  IF blk.ret THEN blk.m
  ELSE TabKey(IF e.ctrl THEN CtrlKey(blk.m, e) ELSE blk.m, e)

\* handleKeyDown after applyInlineMarkdownShortcut gave inl = [m, ret]
AfterInlineShortcut(inl, e) ==
  IF inl.ret THEN inl.m ELSE AfterBlockShortcut(ApplyMarkdownShortcut(inl.m, e), e)

\* The tail of handleKeyDown: the recognizers, the Ctrl keys, Tab.
Recognize(m, e) == AfterInlineShortcut(ApplyInlineMarkdownShortcut(m, e), e)

Printable(e) == e.key \notin {"Enter", "Tab", "Backspace", "Delete", "Escape"}

\* The branches of handleKeyDown without the one that consumes the flag.
KeyBranchKeepsFlag(m, e) ==
  IF e.composing \/ m.composing THEN "composing"
  ELSE IF e.key = "Enter" /\ ~e.shift /\ ~InList(m) THEN "paragraph"
  ELSE IF e.key = "Enter" /\ ~e.shift /\ IsCaretInsideInlineFormatting(m) THEN "breakout"
  ELSE IF m.flag /\ e.key = "Enter" /\ InList(m) THEN "list"
  ELSE IF m.flag /\ e.key = "Enter" THEN "paragraph"
  ELSE "recognize"

\* The branch handleKeyDown takes.
KeyBranch(m, e) ==
  IF e.composing \/ m.composing THEN "composing"
  ELSE IF e.key = "Enter" /\ ~e.shift /\ ~InList(m) THEN "paragraph"
  ELSE IF e.key = "Enter" /\ ~e.shift /\ IsCaretInsideInlineFormatting(m) THEN "breakout"
  ELSE IF m.flag /\ e.key = "Enter" /\ InList(m) THEN "list"
  ELSE IF m.flag /\ e.key = "Enter" THEN "paragraph"
  ELSE IF m.flag /\ Printable(e) /\ ~e.ctrl THEN "consume"
  ELSE "recognize"

\* handleKeyDown
HandleKeyDown(m, e) ==
  CASE KeyBranch(m, e) = "composing" -> m
    [] KeyBranch(m, e) = "paragraph" -> CleanParagraphBreak(m)
    [] KeyBranch(m, e) = "breakout" -> BreakOutOfInline(m)
    [] KeyBranch(m, e) = "list" -> [m EXCEPT !.flag = FALSE]
    [] OTHER -> Recognize([m EXCEPT !.flag = (@ /\ KeyBranch(m, e) # "consume")], e)

(***************************************************************************)
(* The host's default action for a key the handlers did not suppress       *)
(***************************************************************************)

\* The children of an element with the nodes new put at child offset o; a
\* lone placeholder <br> gives way to them.
InsertKids(ks, o, new) ==
  IF ks = <<Br>> THEN new ELSE Splice(ks, o + 1, o, new)

\* A typed character c at the caret: into the caret's text node or the text
\* node next to the caret, or a new text node, or (typing style armed) a new
\* run of that style.  The input event follows.
HostInsertText(m, c) ==
  IF m.sel.n = 0 \/ ~IsCollapsed(m.sel) THEN m
  ELSE
    LET sc == m.sel.sc
        o == m.sel.so
        n == NodeAt(m.dom, sc)
        armed == m.typing # {}
        new == IF armed THEN TypingRun(m.typing, <<Txt(<<c>>)>>) ELSE Txt(<<c>>)
    IN IF IsText(n) /\ ~armed
       THEN HandleInput([m EXCEPT !.dom = SetNode(@, sc, [n EXCEPT !.data = Splice(@, o + 1, o, <<c>>)]),
                                  !.sel = Caret(sc, o + 1)])
       ELSE IF IsText(n)
       THEN LET left == IF o = 0 THEN <<>> ELSE <<[n EXCEPT !.data = SubSeq(@, 1, o)]>>
                right == IF o = Len(n.data) THEN <<>> ELSE <<Txt(SubSeq(n.data, o + 1, Len(n.data)))>>
                at == Parent(sc) \o <<Last(sc) - 1 + Len(left) + 1>>
            IN HandleInput(SetSel([m EXCEPT !.dom = ReplaceChild(@, sc, left \o <<new>> \o right)],
                                  Caret(at \o <<1>>, 1)))
       ELSE IF ~armed /\ m.ha /\ o >= 1 /\ ~IsText(n.kids[o]) /\ n.kids[o].tag \in InlineTags
               /\ n.kids[o].kids # <<>> /\ IsText(Last(n.kids[o].kids))
       THEN LET at == sc \o <<o, Len(n.kids[o].kids)>>
            IN HandleInput(SetSel([m EXCEPT !.dom = SetNode(@, at, [NodeAt(m.dom, at) EXCEPT !.data = Append(@, c)])],
                                  Caret(at, Len(NodeAt(m.dom, at).data) + 1)))
       ELSE IF ~armed /\ o >= 1 /\ IsText(n.kids[o])
       THEN HandleInput(SetSel([m EXCEPT !.dom = SetNode(@, sc \o <<o>>,
                                                   [n.kids[o] EXCEPT !.data = Append(@, c)])],
                               Caret(sc \o <<o>>, Len(n.kids[o].data) + 1)))
       ELSE IF ~armed /\ o + 1 <= Len(n.kids) /\ IsText(n.kids[o + 1])
       THEN HandleInput(SetSel([m EXCEPT !.dom = SetNode(@, sc \o <<o + 1>>,
                                                   [n.kids[o + 1] EXCEPT !.data = <<c>> \o @])],
                               Caret(sc \o <<o + 1>>, 1)))
       ELSE LET at == IF n.kids = <<Br>> THEN 1 ELSE o + 1
                placed == [m EXCEPT !.dom = SetKids(@, sc, InsertKids(n.kids, o, <<new>>))]
            IN HandleInput(SetSel(placed, IF armed THEN Caret(sc \o <<at, 1>>, 1)
                                          ELSE Caret(sc \o <<at>>, 1)))

\* Shift+Enter: a <br> at the caret.
HostInsertLineBreak(m) ==
  IF m.sel.n = 0 \/ ~IsCollapsed(m.sel) THEN m
  ELSE
    LET sc == m.sel.sc
        o == m.sel.so
        n == NodeAt(m.dom, sc)
    IN IF IsText(n)
       THEN LET left == IF o = 0 THEN <<>> ELSE <<[n EXCEPT !.data = SubSeq(@, 1, o)]>>
                right == IF o = Len(n.data) THEN <<>> ELSE <<Txt(SubSeq(n.data, o + 1, Len(n.data)))>>
            IN HandleInput(SetSel([m EXCEPT !.dom = ReplaceChild(@, sc, left \o <<Br>> \o right)],
                                  Caret(Parent(sc), Last(sc) - 1 + Len(left) + 1)))
       ELSE HandleInput(SetSel([m EXCEPT !.dom = SetKids(@, sc, Splice(n.kids, o + 1, o, <<Br>>))],
                               Caret(sc, o + 1)))

\* Backspace: the character before a caret in a text node goes.
HostDeleteBackward(m) ==
  LET n == NodeAt(m.dom, m.sel.sc)
      o == m.sel.so
  IN IF m.sel.n = 0 \/ ~IsCollapsed(m.sel) \/ ~IsText(n) \/ o = 0 THEN m
     ELSE HandleInput([m EXCEPT !.dom = SetNode(@, m.sel.sc, [n EXCEPT !.data = Splice(@, o, o, <<>>)]),
                                !.sel = Caret(m.sel.sc, o - 1)])

\* The host deletes the selected content before it inserts: the selected part
\* of a text node, the selected children of an element.
HostDeleteContents(m) ==
  LET n == NodeAt(m.dom, m.sel.sc)
  IN IF m.sel.n = 0 \/ IsCollapsed(m.sel) THEN m
     ELSE IF IsText(n)
     THEN [m EXCEPT !.dom = SetNode(@, m.sel.sc, [n EXCEPT !.data = Splice(@, m.sel.so + 1, m.sel.eo, <<>>)]),
                    !.sel = Caret(m.sel.sc, m.sel.so)]
     ELSE [m EXCEPT !.dom = SetKids(@, m.sel.sc, Splice(n.kids, m.sel.so + 1, m.sel.eo, <<>>)),
                    !.sel = Caret(m.sel.sc, m.sel.so)]

\* The default action of key event e when no handler suppressed it.  During a
\* composition the key goes to the input method.
HostDefault(m, e) ==
  IF m.prevented \/ e.composing \/ m.composing \/ e.ctrl THEN m
  ELSE CASE e.key = "Enter" /\ e.shift -> HostInsertLineBreak(m)
         [] e.key = "Enter" -> HostInsertParagraph(m)
         [] e.key = "Backspace" -> HostDeleteBackward(m)
         [] e.key \in {"Delete", "Escape", "Tab"} -> m
         [] OTHER -> HostInsertText(HostDeleteContents(m), e.key)

(***************************************************************************)
(* The image and link handlers                                             *)
(***************************************************************************)

RECURSIVE PathsOf(_)
\* The paths of the nodes of the tree n.
PathsOf(n) ==
  {<<>>} \cup UNION {{<<i>> \o q : q \in PathsOf(n.kids[i])} : i \in 1..Len(n.kids)}

\* The node a handler holds a reference to, by its identity; Null when it
\* is no longer in the tree.
PathOfId(d, id) ==
  LET hits == {p \in PathsOf(d) : p # <<>> /\ NodeAt(d, p).id = id}
  IN IF id = 0 \/ hits = {} THEN Null ELSE CHOOSE p \in hits : TRUE

\* The keydown listener of the selected image (capture phase, on the
\* document): [m, stop], stop for e.stopPropagation().
ImageKeyDown(m, e) ==
  LET at == PathOfId(m.dom, m.img)
      gone == [m EXCEPT !.prevented = TRUE, !.img = 0]
  IN IF m.img = 0 THEN [m |-> m, stop |-> FALSE]
     ELSE IF e.key = "Escape" THEN [m |-> gone, stop |-> TRUE]
     ELSE IF e.key \in {"Delete", "Backspace"}
     THEN [m |-> HandleInput(
                   IF at = Null THEN gone
                   ELSE SetSel([gone EXCEPT !.dom = ReplaceChild(@, at, <<>>)],
                               Caret(Parent(at), Last(at) - 1))),
           stop |-> TRUE]
     ELSE [m |-> m, stop |-> FALSE]

\* The editor's onClick, the click's target being the node at path t.
OnClick(m, t) ==
  LET as == Ancestors(t)
      links == {i \in 1..Len(as) : as[i] # <<>> /\ NodeAt(m.dom, as[i]).tag = "a"}
      linkEl == as[CHOOSE i \in links : \A j \in links : i <= j]
  IN IF links # {} THEN [m EXCEPT !.prevented = TRUE, !.link = NodeAt(m.dom, linkEl).id]
     ELSE IF NodeAt(m.dom, t).tag = "img"
     THEN [m EXCEPT !.link = 0, !.img = NodeAt(m.dom, t).id, !.sel = NoSel, !.typing = {}]
     ELSE [m EXCEPT !.link = 0, !.img = 0]

\* The remove-link button of the link popover: a text node with the link's
\* text takes the link's place.
RemoveLink(m) ==
  LET at == PathOfId(m.dom, m.link)
      inside == m.sel.n = 1 /\ IsPrefix(at, m.sel.sc)
  IN HandleInput([m EXCEPT !.dom = IF at = Null THEN @
                                  ELSE SetNode(@, at, Txt(TextOf(NodeAt(m.dom, at)))),
                           !.sel = IF at # Null /\ inside THEN Caret(Parent(at), Last(at) - 1) ELSE @,
                           !.link = 0])

(***************************************************************************)
(* The documents and selections the exploration starts from: what typing   *)
(* and clicking leave in the editor.                                       *)
(***************************************************************************)

\* Texts that end in an inline pattern, and texts that do not.
InlineTexts ==
  { <<"*", "*", "a", "*", "*">>, <<"*", "a", "*">>, <<"_", "a", "_">>,
    <<"~", "~", "a", "~", "~">>, <<"~f", "~f", "a", "~f", "~f">>, <<"BT", "a", "BT">>,
    <<"+", "+", "a", "+", "+">>, <<"<", "u", ">", "a", "<", "/", "u", ">">>,
    <<"[", "a", "]", "(", "b", ")">>, <<"*", "*", "*", "*">>, <<"a">> }

\* The block triggers.
TriggerTexts ==
  { <<"#">>, <<"#", "#">>, <<"#", "#", "#">>, <<">">>, <<"-">>, <<"*">>, <<"1", ".">>,
    <<"-", "-", "-">>, <<"*", "*", "*">> }

\* The texts tried in every container.
CommonTexts ==
  { <<"*", "*", "a", "*", "*">>, <<"*", "a", "*">>, <<"#">>, <<"-", "-", "-">>, <<"a">> }

Containers == {"p", "h1", "root", "li", "pstrong", "h2em", "olistrong", "bq"}

\* A document of one text node in a container, the caret after text, rest
\* following the caret in the same text node.
Seed(container, text, rest) ==
  LET t == Txt(text \o rest)
      kids == CASE container = "p" -> <<El("p", <<t>>)>>
                [] container = "h1" -> <<El("h1", <<t>>)>>
                [] container = "root" -> <<t>>
                [] container = "li" -> <<El("ul", <<El("li", <<t>>)>>)>>
                [] container = "pstrong" -> <<El("p", <<El("strong", <<t>>)>>)>>
                [] container = "h2em" -> <<El("h2", <<El("em", <<t>>)>>)>>
                [] container = "olistrong" -> <<El("ol", <<El("li", <<El("strong", <<t>>)>>)>>)>>
                [] container = "bq" -> <<El("blockquote", <<t>>)>>
      at == CASE container = "root" -> <<1>>
              [] container \in {"p", "h1", "bq"} -> <<1, 1>>
              [] container \in {"li", "pstrong", "h2em"} -> <<1, 1, 1>>
              [] container = "olistrong" -> <<1, 1, 1, 1>>
  IN [dom |-> El("div", kids), sel |-> Caret(at, Len(text))]

Img == ElId("img", <<"src", "x">>, 1, <<>>)

\* The other documents: the empty editor, the empty paragraph, an image, a
\* link, a caret at an element boundary, a selected text, an editor without
\* focus, a second line after a <br> and after a line feed, a trigger after
\* and before a space, a selection of a bold and a plain run.
OtherSeeds ==
  { [dom |-> El("div", <<>>), sel |-> Caret(<<>>, 0)],
    [dom |-> El("div", <<El("p", <<Br>>)>>), sel |-> Caret(<<1>>, 0)],
    [dom |-> El("div", <<El("p", <<Txt(<<"a">>), Img>>)>>), sel |-> Caret(<<1, 1>>, 1)],
    [dom |-> El("div", <<El("p", <<Txt(<<"a">>), ElId("a", <<"href", "b">>, 2, <<Txt(<<"b">>)>>),
                                   Txt(<<"c">>)>>)>>),
     sel |-> Caret(<<1, 1>>, 1)],
    [dom |-> El("div", <<El("p", <<Txt(<<"#">>)>>)>>), sel |-> Caret(<<1>>, 1)],
    [dom |-> El("div", <<El("p", <<Txt(<<"a", "b">>)>>)>>), sel |-> Range(<<1, 1>>, 0, <<1, 1>>, 1)],
    [dom |-> El("div", <<El("p", <<Txt(<<"a", "b">>)>>)>>), sel |-> NoSel],
    [dom |-> El("div", <<El("p", <<Txt(<<"#", "b">>)>>)>>), sel |-> Range(<<1, 1>>, 1, <<1, 1>>, 2)],
    [dom |-> El("div", <<El("p", <<Txt(<<"*", "a", "*", "b">>)>>)>>), sel |-> Range(<<1, 1>>, 3, <<1, 1>>, 4)],
    [dom |-> El("div", <<El("p", <<ElA("span", <<"fontSize", "1", "0", "0", "p", "x">>, <<Txt(<<"a">>)>>)>>)>>),
     sel |-> Range(<<1, 1, 1>>, 0, <<1, 1, 1>>, 1)],
    [dom |-> El("div", <<El("p", <<Txt(<<"a">>), Br, Txt(<<"-">>)>>)>>), sel |-> Caret(<<1, 3>>, 1)],
    [dom |-> El("div", <<El("p", <<Txt(<<"a", "NL", "-">>)>>)>>), sel |-> Caret(<<1, 1>>, 3)],
    [dom |-> El("div", <<El("p", <<Txt(<<" ", "#">>)>>)>>), sel |-> Caret(<<1, 1>>, 2)],
    [dom |-> El("div", <<El("p", <<Txt(<<"#", " ">>)>>)>>), sel |-> Caret(<<1, 1>>, 2)],
    [dom |-> El("div", <<El("p", <<El("strong", <<Txt(<<"a">>)>>), Txt(<<"b">>)>>)>>),
     sel |-> Range(<<1>>, 0, <<1>>, 2)] }

\* The document a conversion of **a** in a paragraph leaves, the caret in the
\* trailing space: the state the reset flag is armed in.
ConvertedSeed ==
  [dom |-> El("div", <<El("p", <<Txt(<<>>), El("strong", <<Txt(<<"a">>)>>), Txt(<<" ">>), Txt(<<>>)>>)>>),
   sel |-> Caret(<<1, 3>>, 1)]

\* resizeDragRef.current: NoDrag for null.
NoDrag == [startX |-> 0, startWidth |-> 0, startHeight |-> 0, corner |-> ""]

Seeds ==
  {Seed("p", t, <<>>) : t \in InlineTexts \cup TriggerTexts}
  \cup {Seed(c, t, <<>>) : c \in Containers, t \in CommonTexts}
  \cup {Seed("p", t, <<"z">>) : t \in CommonTexts \cup {<<"-">>, <<"1", ".">>, <<">">>}}
  \cup OtherSeeds

(***************************************************************************)
(* The state machine                                                       *)
(***************************************************************************)

VARIABLES dom, sel, typing, flag, composing, img, link, nid, hb, ha, content, internal, focused,
          resizeDrag, imgSize, ev, ops

\* The document store (store/editor-store.ts) and the page's auto-save
\* timers: store is the state of the zustand store, the IndexedDB object
\* store and the calls in flight; sev is what is kept of the last step.
VARIABLES store, sev

vars == <<dom, sel, typing, flag, composing, img, link, nid, hb, ha, content, internal, focused,
          resizeDrag, imgSize, ev, ops, store, sev>>

\* A document of the store: the title goes with the content.  NoDoc stands
\* for null and for a key the object store does not hold.
NoDoc == [id |-> 0, content |-> 0, isPinned |-> FALSE, updatedAt |-> 0]

\* The store before fetchDocuments: no document in memory, nothing in flight.
\* db is the object store by key, now the clock, pending the number of
\* auto-save timers set and not yet fired or cleared, tracked whether the
\* timer held in the saveTimeout state is one of them.
EmptyStore ==
  [db |-> [i \in 1..4 |-> NoDoc], documents |-> <<>>, currentDocument |-> NoDoc,
   now |-> 2, calls |-> <<>>, pending |-> 0, tracked |-> FALSE, started |-> 0]

\* What is kept of the last step of the store: the operation, whether the
\* step completed it, the call as it left it, the saves the auto-save
\* timers started since the last user action that changed the content, and
\* that change (edit: the document's id and the content given to it; id 0
\* when there was none, or a delete or a restore has begun since);
\* deleted holds the ids whose deleteDocument has returned with no restore
\* begun since; ops the operations that took a step, toggles the togglePin
\* calls that returned, by id, pinned0 the ids pinned at the start.
NoStep ==
  [op |-> "init", done |-> FALSE, saves |-> 0, edit |-> [id |-> 0, content |-> 0], deleted |-> {},
   ops |-> {}, toggles |-> [i \in 1..2 |-> 0], pinned0 |-> {},
   call |-> [op |-> "", pc |-> 0, id |-> 0, cd |-> NoDoc, ex |-> NoDoc, arg |-> <<>>, count |-> 0,
             alone |-> TRUE, db0 |-> <<>>]]

\* The number of events delivered to the editor.
MaxOps == 2

\* A key event: e.key, e.shiftKey, e.ctrlKey, e.nativeEvent.isComposing
Key(k, shift, ctrl, comp) == [key |-> k, shift |-> shift, ctrl |-> ctrl, composing |-> comp]

KeyEvents ==
  {Key(k, FALSE, FALSE, FALSE) : k \in {" ", "a", "Enter", "Backspace", "Delete", "Escape", "Tab"}}
  \cup {Key(k, FALSE, FALSE, TRUE) : k \in {" ", "Enter", "Backspace"}}
  \cup {Key("Enter", TRUE, FALSE, FALSE), Key("b", FALSE, TRUE, FALSE)}

\* The state the handlers of one event work on.
Before ==
  [dom |-> dom, sel |-> sel, typing |-> typing, flag |-> flag, composing |-> composing,
   img |-> img, link |-> link, nid |-> nid, hb |-> hb, ha |-> ha,
   content |-> content, internal |-> internal, focused |-> focused,
   drag |-> resizeDrag, size |-> imgSize, x |-> 0,
   prevented |-> FALSE, inputs |-> 0, inl |-> 0, trig |-> <<>>]

\* What is kept of the last event: the event, the state it met (dom0, sel0,
\* typing0, flag0), whether it came during a composition, and what the
\* engine's handlers did with it (eng: the state they left, before the
\* host's default action); inputs counts the handleInput() calls, prev is
\* the event before.
Event(op, e, m0, eng) ==
  [op |-> op, e |-> e, composing |-> (m0.composing \/ e.composing),
   dom0 |-> m0.dom, sel0 |-> m0.sel, typing0 |-> m0.typing, flag0 |-> m0.flag, img0 |-> m0.img,
   domE |-> eng.dom, selE |-> eng.sel, typingE |-> eng.typing,
   prevented |-> eng.prevented, inl |-> eng.inl, trig |-> eng.trig, inputs |-> 0, prev |-> "",
   content0 |-> m0.content, md |-> <<>>, title |-> <<>>,
   drag0 |-> m0.drag, size0 |-> m0.size, x |-> eng.x]

NoKey == Key("", FALSE, FALSE, FALSE)

\* The state after an event: m the state the handlers and the host left.
\* handleInput() has set isInternalChange and reported the tree's innerHTML;
\* when that changes the content prop, the content effect runs, finds the
\* change internal and resets isInternalChange (lines 801, 809).
After(m, event) ==
  /\ content' = IF m.inputs > 0 THEN InnerHTML(m.dom) ELSE m.content
  /\ internal' = IF m.inputs > 0 THEN InnerHTML(m.dom) = m.content ELSE m.internal
  /\ focused' = m.focused
  /\ dom' = m.dom /\ sel' = m.sel /\ typing' = m.typing /\ flag' = m.flag
  /\ composing' = m.composing /\ img' = m.img /\ link' = m.link /\ nid' = m.nid
  /\ resizeDrag' = m.drag /\ imgSize' = m.size
  /\ UNCHANGED <<store, sev>>
  /\ hb' = hb /\ ha' = ha /\ ev' = [event EXCEPT !.inputs = m.inputs, !.prev = ev.op] /\ ops' = ops + 1

Init ==
  /\ \/ \E s \in Seeds : dom = s.dom /\ sel = s.sel /\ flag = FALSE /\ img = 0 /\ imgSize = [w |-> 200, h |-> 100]
     \/ dom = ConvertedSeed.dom /\ sel = ConvertedSeed.sel /\ flag = TRUE /\ img = 0
        /\ imgSize = [w |-> 200, h |-> 100]
     \* the document with its image selected by a click (onClick has dropped
     \* the selection), the image rendered in one of three sizes
     \/ /\ dom = El("div", <<El("p", <<Txt(<<"a">>), Img>>)>>) /\ sel = NoSel /\ flag = FALSE
        /\ img = Img.id
        /\ imgSize \in {[w |-> 200, h |-> 100], [w |-> 60, h |-> 240], [w |-> 120, h |-> 20]}
     \* a document with a link and an image, the image selected by a click
     \/ /\ dom = El("div", <<El("p", <<ElId("a", <<"href", "b">>, 2, <<Txt(<<"b">>)>>), Img,
                                        Txt(<<"c">>)>>)>>)
        /\ sel = NoSel /\ flag = FALSE /\ img = Img.id /\ imgSize = [w |-> 200, h |-> 100]
  /\ content = InnerHTML(dom) /\ internal = FALSE /\ focused = (sel.n = 1 \/ img # 0)
  /\ resizeDrag = NoDrag
  /\ typing = {} /\ composing = FALSE /\ link = 0 /\ nid = 3
  /\ hb \in BOOLEAN
  /\ ha \in BOOLEAN
  /\ ev = [Event("init", NoKey, Before, Before) EXCEPT !.inputs = 0]
  /\ ops = 0
  /\ store = EmptyStore /\ sev = NoStep

\* The engine's handlers of a keydown: the selected image's listener first,
\* then (unless it stopped the event) handleKeyDown.
KeyAfterImage(im, e) == IF im.stop THEN im.m ELSE HandleKeyDown(im.m, e)

\* An event has been handled: eng is what the engine's handlers left of m0,
\* m what the host's default action left of eng.
Settle(op, e, m0, eng, m) == After(m, Event(op, e, m0, eng))

\* A keydown, then the host's default action.
KeyHandled(e, eng) == Settle("key", e, Before, eng, HostDefault(eng, e))

\* The keys tried on a selected text.
RangeKeys == {Key(" ", FALSE, FALSE, FALSE), Key("a", FALSE, FALSE, FALSE)}

KeyDown(e) ==
  /\ ops < MaxOps
  /\ focused
  /\ IsCollapsed(sel) \/ e \in RangeKeys
  /\ KeyHandled(e, KeyAfterImage(ImageKeyDown(Before, e), e))

\* What a click can hit: a text node that is not empty, an image.
ClickTargets ==
  {t \in PathsOf(dom) : t # <<>> /\ (  (IsText(NodeAt(dom, t)) /\ NodeAt(dom, t).data # <<>>)
                                    \/ NodeAt(dom, t).tag = "img")}

\* The selection the host sets when the pointer goes down on t and up again:
\* a caret at the end of the text, the whole text (a drag), the image.
PointerSelection(t, drag) ==
  LET n == NodeAt(dom, t)
  IN IF IsText(n) THEN (IF drag THEN Range(t, 0, t, Len(n.data)) ELSE Caret(t, Len(n.data)))
     ELSE Range(Parent(t), Last(t) - 1, Parent(t), Last(t))

\* The editor's handlers of an event that is no keydown.
Handled(op, m0, eng) == Settle(op, NoKey, m0, eng, eng)

\* A click in the editor: the host's selection, then onClick.
ClickOn(m0, t) == Handled("click", m0, OnClick(m0, t))

Click(t, drag) ==
  /\ ops < MaxOps
  /\ ClickOn(SetSel([Before EXCEPT !.focused = TRUE], PointerSelection(t, drag)), t)

\* onCompositionStart
CompositionStart ==
  /\ ops < MaxOps
  /\ focused
  /\ ~composing
  /\ sel.n = 1
  /\ Handled("compositionstart", Before, [Before EXCEPT !.composing = TRUE])

\* onCompositionEnd, m0 what the host's commit left.
CompositionEnded(m0) ==
  Handled("compositionend", m0, [m0 EXCEPT !.composing = FALSE, !.flag = FALSE])

\* The end of a composition: the host has committed the composed text
\* (commit) or nothing (the composition was cancelled).
CompositionEnd(commit) ==
  /\ ops < MaxOps
  /\ composing
  /\ CompositionEnded(IF commit THEN HostInsertText(Before, "c") ELSE Before)

Styles == {"bold", "color", "highlight", "fontSize", "fontSizeIncrease", "fontSizeDecrease", "code"}

\* A command of the floating toolbar: applyStyle(style, value)
ToolbarCommand(style) ==
  /\ ops < MaxOps
  /\ sel.n = 1
  /\ Handled(style, Before,
             ApplyStyle(Before, style, IF style = "fontSize" THEN <<"1", "2", "p", "x">> ELSE <<"red">>))

(***************************************************************************)
(* lib/html-to-markdown.ts.  Markdown is a text over the same characters;  *)
(* the fixed pieces of the <span style="..."> wrapper of applyInlineStyles *)
(* are single tokens.  A StyleInfo is a record whose absent text fields    *)
(* are <<>>.                                                               *)
(***************************************************************************)
\* A serializer that wraps the text once for each style attribute.
FormatTextPerAttribute(text, style) ==
  LET wrap(name, value, t) ==
        IF value = <<>> THEN t
        ELSE <<"<span style=\"", name>> \o value \o <<";", "\">">> \o t \o <<"</span>">>
  IN IF text = <<>> THEN <<>>
     ELSE wrap("color:", style.color,
               wrap("background-color:", style.backgroundColor,
                    wrap("font-size:", style.fontSize, text)))

\* applyInlineStyles(applyTextFormatting(text, style), style), the result of
\* processNode for a text node.
FormatText(text, style) ==
  LET c == IF style.code THEN <<"BT">> \o text \o <<"BT">> ELSE text
      s == IF style.strikethrough THEN <<"~", "~">> \o c \o <<"~", "~">> ELSE c
      u == IF style.underline THEN <<"<", "u", ">">> \o s \o <<"<", "/", "u", ">">> ELSE s
      b == IF style.bold THEN <<"*", "*">> \o u \o <<"*", "*">> ELSE u
      i == IF style.italic THEN <<"*">> \o b \o <<"*">> ELSE b
      styleAttr ==
        (IF style.color # <<>> THEN <<"color:">> \o style.color \o <<";">> ELSE <<>>)
        \o (IF style.backgroundColor # <<>>
            THEN <<"background-color:">> \o style.backgroundColor \o <<";">> ELSE <<>>)
        \o (IF style.fontSize # <<>> THEN <<"font-size:">> \o style.fontSize \o <<";">> ELSE <<>>)
  IN IF text = <<>> THEN <<>>
     ELSE IF styleAttr = <<>> THEN i
     ELSE <<"<span style=\"">> \o styleAttr \o <<"\">">> \o i \o <<"</span>">>

RECURSIVE ProcessNode(_, _, _, _)
\* processNode(node, inheritedStyle); parentTag and index stand for
\* element.parentElement and the place of the element among its element
\* siblings.  A typing-run span of the host stands for the b, i, u and
\* strike elements the host makes of the toggled commands.
ProcessNode(node, inheritedStyle, parentTag, index) ==
  IF IsText(node) THEN FormatText(node.data, inheritedStyle)
  ELSE
    LET tagName == node.tag
        a == node.attr
        has(k) == a # <<>> /\ a[1] = k
        toggled(c) == has("toggle") /\ \E i \in 2..Len(a) : a[i] = c
        style ==
          [bold |-> (inheritedStyle.bold \/ tagName \in {"b", "strong"}) # toggled("bold"),
           italic |-> (inheritedStyle.italic \/ tagName \in {"i", "em"}) # toggled("italic"),
           underline |-> (inheritedStyle.underline \/ tagName = "u") # toggled("underline"),
           strikethrough |-> (inheritedStyle.strikethrough \/ tagName \in {"s", "del", "strike"})
                             # toggled("strikeThrough"),
           code |-> inheritedStyle.code \/ tagName = "code",
           color |-> IF has("color") THEN a[2] ELSE inheritedStyle.color,
           backgroundColor |-> IF has("backgroundColor") THEN a[2] ELSE inheritedStyle.backgroundColor,
           fontSize |-> IF has("fontSize") THEN Tail(a) ELSE inheritedStyle.fontSize]
        kids == node.kids
        upTo[i \in 0..Len(kids)] ==
          IF i = 0 THEN <<>>
          ELSE upTo[i - 1]
               \o ProcessNode(kids[i], style, tagName, Cardinality({j \in 1..i : ~IsText(kids[j])}))
        childrenContent == upTo[Len(kids)]
        trimmed == Trim(childrenContent)
        hashes == [h1 |-> <<"#">>, h2 |-> <<"#", "#">>, h3 |-> <<"#", "#", "#">>]
    IN IF trimmed = <<>> THEN childrenContent
       ELSE CASE tagName \in {"h1", "h2", "h3"} ->
                   <<"NL">> \o hashes[tagName] \o <<" ">> \o trimmed \o <<"NL", "NL">>
              [] tagName \in {"p", "div"} -> <<"NL">> \o trimmed \o <<"NL", "NL">>
              [] tagName = "br" -> <<"NL">>
              [] tagName = "hr" -> <<"NL", "-", "-", "-", "NL", "NL">>
              [] tagName = "blockquote" ->
                   <<"NL", ">", " ">>
                   \o Concat([i \in 1..Len(trimmed) |->
                                IF trimmed[i] = "NL" THEN <<"NL", ">", " ">> ELSE <<trimmed[i]>>])
                   \o <<"NL", "NL">>
              [] tagName \in {"ul", "ol"} -> <<"NL">> \o childrenContent \o <<"NL">>
              [] tagName = "li" ->
                   (IF parentTag = "ol" THEN Decimal(index) \o <<".", " ">> ELSE <<"-", " ">>)
                   \o trimmed \o <<"NL">>
              [] tagName = "a" ->
                   <<"[">> \o childrenContent \o <<"]", "(">>
                   \o (IF has("href") THEN Tail(a) ELSE <<>>) \o <<")">>
              [] tagName = "img" ->
                   <<"!", "[", "]", "(">> \o (IF has("src") THEN Tail(a) ELSE <<>>) \o <<")">>
              [] OTHER -> childrenContent

RECURSIVE RemoveEmpty(_, _, _)
\* s.replace(/open\s*close/g, ''): every leftmost match goes, the search
\* goes on behind it.
RemoveEmpty(s, open, close) ==
  IF s = <<>> THEN s
  ELSE LET rest == SubSeq(s, Len(open) + 1, Len(s))
           ink == {i \in 1..Len(rest) : rest[i] \notin WhiteSpace}
           ws == IF ink = {} THEN Len(rest) ELSE (CHOOSE i \in ink : \A j \in ink : i <= j) - 1
           found == /\ Len(s) >= Len(open) + Len(close)
                    /\ SubSeq(s, 1, Len(open)) = open
                    /\ Len(rest) >= ws + Len(close)
                    /\ SubSeq(rest, ws + 1, ws + Len(close)) = close
       IN IF found THEN RemoveEmpty(SubSeq(rest, ws + Len(close) + 1, Len(rest)), open, close)
          ELSE <<Head(s)>> \o RemoveEmpty(Tail(s), open, close)

\* A serializer without the clean-up pass.
HtmlToMarkdownUncleaned(html, title) ==
  LET noStyle ==
        [bold |-> FALSE, italic |-> FALSE, underline |-> FALSE, strikethrough |-> FALSE,
         code |-> FALSE, color |-> <<>>, backgroundColor |-> <<>>, fontSize |-> <<>>]
      body == [i \in 1..Len(html.kids) |->
                 ProcessNode(html.kids[i], noStyle, "body",
                             Cardinality({j \in 1..i : ~IsText(html.kids[j])}))]
  IN <<"#", " ">> \o title \o <<"NL", "NL">> \o Concat(body)

\* htmlToMarkdown(html, title): html the tree the string parses to.
HtmlToMarkdown(html, title) ==
  LET noStyle ==
        [bold |-> FALSE, italic |-> FALSE, underline |-> FALSE, strikethrough |-> FALSE,
         code |-> FALSE, color |-> <<>>, backgroundColor |-> <<>>, fontSize |-> <<>>]
      body == [i \in 1..Len(html.kids) |->
                 ProcessNode(html.kids[i], noStyle, "body",
                             Cardinality({j \in 1..i : ~IsText(html.kids[j])}))]
      markdown == <<"#", " ">> \o title \o <<"NL", "NL">> \o Concat(body)
      r1 == RemoveEmpty(markdown, <<"*", "*">>, <<"*", "*">>)
      r2 == RemoveEmpty(r1, <<"*">>, <<"*">>)
      r3 == RemoveEmpty(r2, <<"~", "~">>, <<"~", "~">>)
      r4 == RemoveEmpty(r3, <<"<", "u", ">">>, <<"<", "/", "u", ">">>)
      r5 == RemoveEmpty(r4, <<"BT">>, <<"BT">>)
      \* .replace(/\n{3,}/g, '\n\n'): of a run of line feeds the first two stay
      at == SelectSeq([i \in 1..Len(r5) |-> i],
                      LAMBDA i : ~(i >= 3 /\ r5[i] = "NL" /\ r5[i - 1] = "NL" /\ r5[i - 2] = "NL"))
      r6 == [i \in 1..Len(at) |-> r5[at[i]]]
      ink == {i \in 1..Len(r6) : r6[i] # "NL"}
      first == CHOOSE i \in ink : \A j \in ink : i <= j
      last == CHOOSE i \in ink : \A j \in ink : j <= i
  IN \* .replace(/^\n+/, '').replace(/\n+$/, '\n'); the title line is never empty
     SubSeq(r6, first, last) \o (IF last < Len(r6) THEN <<"NL">> ELSE <<>>)

\* The documents of the store: a new document (createDocument: content ''),
\* a stored one.
Docs ==
  { El("div", <<>>),
    El("div", <<El("h1", <<Txt(<<"x">>)>>), El("hr", <<>>),
                El("p", <<El("strong", <<Txt(<<"y">>)>>), Txt(<<"z">>)>>),
                El("p", <<Txt(<<"a">>)>>), El("p", <<Txt(<<"b">>)>>),
                El("ol", <<El("li", <<Txt(<<"c">>)>>), El("li", <<Txt(<<"d">>)>>)>>)>>) }

\* The content effect after the store attached another document: unless the
\* change counts as internal or the editor has the focus, the tree becomes
\* the document's content (new nodes: the host collapses the selection to
\* the editor's start) and the selected image is dropped.
SyncContent(m) ==
  IF ~m.internal /\ ~m.focused /\ InnerHTML(m.dom) # m.content
  THEN [m EXCEPT !.internal = FALSE, !.img = 0, !.typing = {},
                 !.dom = IF m.content.kids = <<>> THEN El("div", <<El("p", <<Br>>)>>) ELSE m.content,
                 !.sel = IF @.n = 1 THEN Caret(<<>>, 0) ELSE @]
  ELSE [m EXCEPT !.internal = FALSE]

\* The store attaches document doc (setCurrentDocument, createDocument).
\* away: the pointer went down in the sidebar and took the focus from the
\* editor; otherwise an earlier request of the store completes with the
\* focus where it is.
SetCurrentDocument(doc, away) ==
  /\ ops < MaxOps
  /\ doc # content
  /\ Handled("swap", Before, SyncContent([Before EXCEPT !.content = doc, !.focused = @ /\ ~away]))

\* onMouseDown of the resize handle at corner, the pointer at x.  The
\* aspect ratio is startWidth / (startHeight || 1).
ResizeMouseDown(corner, x) ==
  /\ ops < MaxOps
  /\ img # 0
  /\ Handled("resizedown", Before,
             [Before EXCEPT !.prevented = TRUE, !.x = x,
                            !.drag = [startX |-> x, startWidth |-> imgSize.w,
                                      startHeight |-> imgSize.h, corner |-> corner]])

\* A drag handler that keeps the aspect ratio without a minimum height.
HandleMouseMoveNoMinimum(x) ==
  /\ ops < MaxOps
  /\ resizeDrag # NoDrag /\ img # 0
  /\ LET dx == x - resizeDrag.startX
         widthDelta == IF resizeDrag.corner \in {"nw", "sw"} THEN -dx ELSE dx
         newWidth == IF resizeDrag.startWidth + widthDelta > 50
                     THEN resizeDrag.startWidth + widthDelta ELSE 50
         den == IF resizeDrag.startHeight = 0 THEN 1 ELSE resizeDrag.startHeight
     IN Handled("resizemove", Before,
                [Before EXCEPT !.prevented = TRUE, !.x = x,
                               !.size = [w |-> newWidth,
                                         h |-> (2 * newWidth * den + resizeDrag.startWidth)
                                                 \div (2 * resizeDrag.startWidth)]])

\* handleMouseMove of the document during a drag, the pointer at x:
\* Math.round(newWidth) and Math.round(newHeight) are written to the image,
\* newHeight being max(50, newWidth / aspectRatio).
HandleMouseMove(x) ==
  /\ ops < MaxOps
  /\ resizeDrag # NoDrag /\ img # 0
  /\ LET dx == x - resizeDrag.startX
         widthDelta == IF resizeDrag.corner \in {"nw", "sw"} THEN -dx ELSE dx
         newWidth == IF resizeDrag.startWidth + widthDelta > 50
                     THEN resizeDrag.startWidth + widthDelta ELSE 50
         den == IF resizeDrag.startHeight = 0 THEN 1 ELSE resizeDrag.startHeight
         rounded == (2 * newWidth * den + resizeDrag.startWidth) \div (2 * resizeDrag.startWidth)
     IN Handled("resizemove", Before,
                [Before EXCEPT !.prevented = TRUE, !.x = x,
                               !.size = [w |-> newWidth, h |-> IF rounded > 50 THEN rounded ELSE 50]])

\* handleMouseUp of the document: the drag ends, handleInput() reports the
\* content.
HandleMouseUp ==
  /\ ops < MaxOps
  /\ resizeDrag # NoDrag
  /\ Handled("resizeup", Before, HandleInput([Before EXCEPT !.drag = NoDrag]))

\* handleExport: downloadMarkdown(currentDocument.content, currentDocument.title);
\* ev.md is the text of the downloaded file.
HandleExport(title) ==
  /\ ops < MaxOps
  /\ After(Before, [Event("export", NoKey, Before, Before)
                      EXCEPT !.md = HtmlToMarkdown(content, title), !.title = title])

\* The remove-link button of the open link popover
RemoveLinkClick ==
  /\ ops < MaxOps
  /\ link # 0
  /\ Handled("removelink", Before, RemoveLink(Before))

Next ==
  \/ \E e \in KeyEvents : KeyDown(e)
  \/ \E t \in ClickTargets, drag \in BOOLEAN : Click(t, drag)
  \/ CompositionStart
  \/ \E commit \in BOOLEAN : CompositionEnd(commit)
  \/ \E style \in Styles : ToolbarCommand(style)
  \/ RemoveLinkClick
  \/ \E doc \in Docs, away \in BOOLEAN : SetCurrentDocument(doc, away)
  \/ \E title \in {<<"t">>, <<"a", "*", "*", "b">>} : HandleExport(title)
  \/ \E corner \in {"nw", "ne", "sw", "se"}, x \in {0, 30, 200} : ResizeMouseDown(corner, x)
  \/ \E x \in {0, 30, 200} : HandleMouseMove(x)
  \/ HandleMouseUp

Spec == Init /\ [][Next]_vars

(***************************************************************************)
(* The document store.  Every operation is an async function: it runs up   *)
(* to its first request to IndexedDB when it is called, and each request   *)
(* completes in a later task that runs the code up to the next request.    *)
(* A call in flight is [op, pc, id, cd, ex, arg, count, alone, db0]: pc    *)
(* the request it waits for, cd the currentDocument it read, ex the        *)
(* document a get returned (then the document to put), arg the documents   *)
(* of a backup, count those written, alone whether no other call was in    *)
(* flight with it, db0 the object store when it was called.                *)
(***************************************************************************)

\* The operations started in one behaviour, and the calls in flight at once.
MaxStarted == 3

MaxCalls == 2

\* docs.sort((a, b) => ...): pinned first, then the later updatedAt first;
\* Array.prototype.sort is stable.
SortDocs(docs) ==
  LET precedes(i, j) ==
        \/ docs[i].isPinned /\ ~docs[j].isPinned
        \/ /\ docs[i].isPinned = docs[j].isPinned
           /\ \/ docs[i].updatedAt > docs[j].updatedAt
              \/ docs[i].updatedAt = docs[j].updatedAt /\ i < j
  IN [k \in 1..Len(docs) |->
        docs[CHOOSE i \in 1..Len(docs) : Cardinality({j \in 1..Len(docs) : precedes(j, i)}) = k - 1]]

\* getAllDocs(): store.getAll() in key order, sorted.
GetAllDocs(db) == SortDocs(SelectSeq([i \in 1..4 |-> db[i]], LAMBDA d : d # NoDoc))

\* A call of op enters the calls in flight.
Begin(st, op, id, cd, arg) ==
  [st EXCEPT !.started = @ + 1,
             !.calls = Append([k \in 1..Len(@) |-> [@[k] EXCEPT !.alone = FALSE]],
                              [op |-> op, pc |-> 1, id |-> id, cd |-> cd, ex |-> NoDoc, arg |-> arg,
                               count |-> 0, alone |-> (st.calls = <<>>), db0 |-> st.db])]

CanBegin == store.started < MaxStarted /\ Len(store.calls) < MaxCalls

\* One step of the store: st the state it leaves, k the call that took it
\* (0: a call began), done whether the call returned.
StoreStep(st, op, k, done) ==
  /\ store' = IF done THEN [st EXCEPT !.calls = SubSeq(@, 1, k - 1) \o SubSeq(@, k + 1, Len(@))] ELSE st
  /\ sev' = [sev EXCEPT !.op = op, !.done = done,
                        !.call = IF k # 0 THEN st.calls[k]
                                 ELSE IF Len(st.calls) > Len(store.calls) THEN st.calls[Len(st.calls)]
                                 ELSE NoStep.call,
                        !.saves = IF op = "change" THEN 0
                                  ELSE IF op = "timer" /\ Len(st.calls) > Len(store.calls) THEN @ + 1
                                  ELSE @,
                        !.edit = IF op = "change"
                                 THEN [id |-> st.currentDocument.id, content |-> st.currentDocument.content]
                                 ELSE IF op \in {"delete", "import"} THEN NoStep.edit
                                 ELSE @,
                        !.deleted = IF op = "delete" /\ done THEN @ \cup {st.calls[k].id}
                                    ELSE IF op = "import" THEN {}
                                    ELSE @,
                        !.ops = @ \cup {op},
                        !.toggles = IF op = "pin" /\ done THEN [@ EXCEPT ![st.calls[k].id] = @ + 1] ELSE @]
  /\ UNCHANGED <<dom, sel, typing, flag, composing, img, link, nid, hb, ha, content, internal,
                 focused, resizeDrag, imgSize, ev, ops>>

\* The call k in flight is a call of op waiting for its request pc.
Waits(k, op, pc) == k \in 1..Len(store.calls) /\ store.calls[k].op = op /\ store.calls[k].pc = pc

\* fetchDocuments
FetchDocuments(k) ==
  \/ k = 0 /\ CanBegin /\ StoreStep(Begin(store, "fetch", 0, NoDoc, <<>>), "fetch", 0, FALSE)
  \/ Waits(k, "fetch", 1) /\ StoreStep([store EXCEPT !.documents = GetAllDocs(store.db)], "fetch", k, TRUE)

\* createDocument: createDoc() makes the document when it is called
\* (generateId(): a key no document ever had) and adds it; then the list
\* and the current document are set.
CreateDocument(k) ==
  \/ /\ k = 0 /\ CanBegin
     /\ store.db[4] = NoDoc /\ \A j \in 1..Len(store.calls) : store.calls[j].op # "create"
     /\ StoreStep(Begin([store EXCEPT !.now = @ + 1], "create", 4,
                        [id |-> 4, content |-> 0, isPinned |-> FALSE, updatedAt |-> store.now + 1], <<>>),
                  "create", 0, FALSE)
  \/ /\ Waits(k, "create", 1)
     /\ LET document == store.calls[k].cd
        IN StoreStep([store EXCEPT !.db[4] = document, !.documents = <<document>> \o @,
                                   !.currentDocument = document], "create", k, TRUE)

\* saveDocument: updateDoc(currentDocument.id, {title, content}), that is a
\* get, then a put of the document the get returned with the new fields;
\* then the list entry becomes the currentDocument read at the call.
SaveDocument(k) ==
  \/ /\ k = 0 /\ CanBegin /\ store.currentDocument # NoDoc
     /\ StoreStep(Begin(store, "save", store.currentDocument.id, store.currentDocument, <<>>),
                  "save", 0, FALSE)
  \/ /\ Waits(k, "save", 1)
     /\ LET c == store.calls[k]
            existing == store.db[c.id]
        IN IF existing = NoDoc
           THEN StoreStep([store EXCEPT !.documents =
                             SortDocs([i \in 1..Len(@) |-> IF @[i].id = c.id THEN c.cd ELSE @[i]])],
                          "save", k, TRUE)
           ELSE StoreStep([store EXCEPT !.now = @ + 1, !.calls[k].pc = 2,
                                        !.calls[k].ex = [existing EXCEPT !.content = c.cd.content,
                                                                         !.updatedAt = store.now + 1]],
                          "save", k, FALSE)
  \/ /\ Waits(k, "save", 2)
     /\ LET c == store.calls[k]
        IN StoreStep([store EXCEPT !.db[c.id] = c.ex,
                                   !.documents =
                                     SortDocs([i \in 1..Len(@) |-> IF @[i].id = c.id THEN c.cd ELSE @[i]])],
                     "save", k, TRUE)

\* deleteDocument(id) without the reset of the current document.
DeleteDocumentKeepsCurrent(id, k) ==
  \/ k = 0 /\ CanBegin /\ StoreStep(Begin(store, "delete", id, NoDoc, <<>>), "delete", 0, FALSE)
  \/ /\ Waits(k, "delete", 1) /\ store.calls[k].id = id
     /\ StoreStep([store EXCEPT !.db[id] = NoDoc,
                                !.documents = SelectSeq(@, LAMBDA d : d.id # id)],
                  "delete", k, TRUE)

\* deleteDocument(id)
DeleteDocument(id, k) ==
  \/ k = 0 /\ CanBegin /\ StoreStep(Begin(store, "delete", id, NoDoc, <<>>), "delete", 0, FALSE)
  \/ /\ Waits(k, "delete", 1) /\ store.calls[k].id = id
     /\ StoreStep([store EXCEPT !.db[id] = NoDoc,
                                !.documents = SelectSeq(@, LAMBDA d : d.id # id),
                                !.currentDocument = IF @.id = id THEN NoDoc ELSE @],
                  "delete", k, TRUE)

\* togglePin(id): toggleDocPin(id) is a get, then updateDoc(id, {isPinned}),
\* a second get and a put; then the list entry's isPinned is negated.
TogglePin(id, k) ==
  LET flipped == [store EXCEPT !.documents =
                    SortDocs([i \in 1..Len(@) |->
                                IF @[i].id = id THEN [@[i] EXCEPT !.isPinned = ~@] ELSE @[i]])]
  IN \/ k = 0 /\ CanBegin /\ StoreStep(Begin(store, "pin", id, NoDoc, <<>>), "pin", 0, FALSE)
     \/ /\ Waits(k, "pin", 1) /\ store.calls[k].id = id
        /\ IF store.db[id] = NoDoc THEN StoreStep(flipped, "pin", k, TRUE)
           ELSE StoreStep([store EXCEPT !.calls[k].pc = 2,
                                        !.calls[k].cd = [store.db[id] EXCEPT !.isPinned = ~@]],
                          "pin", k, FALSE)
     \/ /\ Waits(k, "pin", 2) /\ store.calls[k].id = id
        /\ IF store.db[id] = NoDoc THEN StoreStep(flipped, "pin", k, TRUE)
           ELSE StoreStep([store EXCEPT !.now = @ + 1, !.calls[k].pc = 3,
                                        !.calls[k].ex = [store.db[id] EXCEPT
                                                           !.isPinned = store.calls[k].cd.isPinned,
                                                           !.updatedAt = store.now + 1]],
                          "pin", k, FALSE)
     \/ /\ Waits(k, "pin", 3) /\ store.calls[k].id = id
        /\ StoreStep([flipped EXCEPT !.db[id] = store.calls[k].ex], "pin", k, TRUE)

\* importDocumentsFromJson without the getAllDocs() that sets the list.
ImportDocumentsFromJsonNoRefresh(arg, k) ==
  \/ k = 0 /\ CanBegin /\ StoreStep(Begin(store, "import", 0, NoDoc, arg), "import", 0, FALSE)
  \/ /\ k \in 1..Len(store.calls) /\ store.calls[k].op = "import" /\ store.calls[k].arg = arg
     /\ LET c == store.calls[k]
        IN IF c.pc <= Len(arg)
           THEN StoreStep([store EXCEPT !.db[arg[c.pc].id] = arg[c.pc],
                                        !.calls[k].pc = @ + 1, !.calls[k].count = @ + 1],
                          "import", k, FALSE)
           ELSE StoreStep(store, "import", k, TRUE)

\* importDocumentsFromJson(jsonData), jsonData an array of documents:
\* importDocs() puts them one by one, then getAllDocs() sets the list.
ImportDocumentsFromJson(arg, k) ==
  \/ k = 0 /\ CanBegin /\ StoreStep(Begin(store, "import", 0, NoDoc, arg), "import", 0, FALSE)
  \/ /\ k \in 1..Len(store.calls) /\ store.calls[k].op = "import" /\ store.calls[k].arg = arg
     /\ LET c == store.calls[k]
        IN IF c.pc <= Len(arg)
           THEN StoreStep([store EXCEPT !.db[arg[c.pc].id] = arg[c.pc],
                                        !.calls[k].pc = @ + 1, !.calls[k].count = @ + 1],
                          "import", k, FALSE)
           ELSE StoreStep([store EXCEPT !.documents = GetAllDocs(store.db)], "import", k, TRUE)

\* A user action in the editor that calls onChange n times, the last time
\* with content: each handleContentChange updates the current document,
\* clears the timer of the saveTimeout state it was rendered with and sets
\* a timer; the state holds the last timer after the render.
HandleContentChange(n, newContent) ==
  /\ store.started < MaxStarted
  /\ store.currentDocument # NoDoc
  /\ StoreStep([store EXCEPT !.started = @ + 1,
                             !.currentDocument.content = newContent,
                             !.pending = @ - (IF store.tracked THEN 1 ELSE 0) + n,
                             !.tracked = TRUE],
               "change", 0, FALSE)

\* setCurrentDocument(doc), doc the entry of the list with the id: the
\* onClick of a row of the sidebar.
SelectDocument(id) ==
  /\ store.started < MaxStarted
  /\ \E i \in 1..Len(store.documents) :
       /\ store.documents[i].id = id
       /\ StoreStep([store EXCEPT !.started = @ + 1, !.currentDocument = store.documents[i]],
                    "select", 0, FALSE)

\* An auto-save timer fires, the one of the saveTimeout state (isTracked)
\* or another: it calls saveDocument().
TimerFire(isTracked) ==
  /\ CanBegin
  /\ store.pending > (IF isTracked = store.tracked THEN 0 ELSE 1)
  /\ isTracked => store.tracked
  /\ LET fired == [store EXCEPT !.pending = @ - 1, !.tracked = @ /\ ~isTracked]
     IN StoreStep(IF store.currentDocument = NoDoc THEN [fired EXCEPT !.started = @ + 1]
                  ELSE Begin(fired, "save", store.currentDocument.id, store.currentDocument, <<>>),
                  "timer", 0, FALSE)

\* The store after fetchDocuments: two documents, the second the later one,
\* the first pinned or not; no document or one of them is open.
StoreInit ==
  /\ dom = El("div", <<>>) /\ sel = NoSel /\ flag = FALSE /\ img = 0 /\ imgSize = [w |-> 200, h |-> 100]
  /\ content = InnerHTML(dom) /\ internal = FALSE /\ focused = FALSE
  /\ resizeDrag = NoDrag
  /\ typing = {} /\ composing = FALSE /\ link = 0 /\ nid = 3
  /\ hb = FALSE /\ ha = FALSE
  /\ ev = [Event("init", NoKey, Before, Before) EXCEPT !.inputs = 0]
  /\ ops = 0
  /\ \E pinned \in BOOLEAN, open \in 0..2 :
       LET db == [i \in 1..4 |-> IF i > 2 THEN NoDoc
                                 ELSE [id |-> i, content |-> 0, isPinned |-> (pinned /\ i = 1),
                                       updatedAt |-> i]]
       IN store = [EmptyStore EXCEPT !.db = db, !.documents = GetAllDocs(db),
                                     !.currentDocument = IF open = 0 THEN NoDoc ELSE db[open]]
  /\ sev = [NoStep EXCEPT !.pinned0 = {store.documents[i].id : i \in {j \in 1..Len(store.documents) :
                                                                      store.documents[j].isPinned}}]

StoreNext ==
  \/ \E k \in 0..MaxCalls : FetchDocuments(k)
  \/ \E k \in 0..MaxCalls : CreateDocument(k)
  \/ \E k \in 0..MaxCalls : SaveDocument(k)
  \/ \E id \in 1..2, k \in 0..MaxCalls : DeleteDocument(id, k)
  \/ \E id \in 1..2, k \in 0..MaxCalls : TogglePin(id, k)
  \/ \E arg \in { <<[id |-> 1, content |-> 2, isPinned |-> TRUE, updatedAt |-> 9]>>,
                  <<[id |-> 3, content |-> 1, isPinned |-> FALSE, updatedAt |-> 1],
                    [id |-> 2, content |-> 1, isPinned |-> FALSE, updatedAt |-> 1]>> },
        k \in 0..MaxCalls : ImportDocumentsFromJson(arg, k)
  \/ \E n \in 1..2, newContent \in 1..2 : HandleContentChange(n, newContent)
  \/ \E isTracked \in BOOLEAN : TimerFire(isTracked)
  \/ \E id \in 1..4 : SelectDocument(id)

StoreSpec == StoreInit /\ [][StoreNext]_vars

(***************************************************************************)
(* The claims.  ev holds the last event, the state it met and what the     *)
(* handlers left; the variables hold the state after the host's default.   *)
(***************************************************************************)

\* The last event was a keydown of key k alone, outside a composition, with
\* a caret in the editor.
PlainKey(k) ==
  /\ ev.op = "key" /\ ev.e = Key(k, FALSE, FALSE, FALSE) /\ ~ev.composing
  /\ ev.sel0.n = 1 /\ IsCollapsed(ev.sel0)

\* The block of the caret the event met (<<>>: the caret was in no block),
\* the text before the caret in it, and its last line.
Block0 == ClosestBlock(ev.dom0, ev.sel0.sc)

BeforeInBlock0 ==
  TextBefore(NodeAt(ev.dom0, Block0), SubSeq(ev.sel0.sc, Len(Block0) + 1, Len(ev.sel0.sc)), ev.sel0.so)

Line0 == LastLine(ReplaceNbsp(BeforeInBlock0))

\* The text node the caret was in, and its data before the caret.
Node0 == NodeAt(ev.dom0, ev.sel0.sc)

Before0 == SubSeq(Node0.data, 1, ev.sel0.so)

\* The block that holds the caret now.
BlockNow == ClosestBlock(dom, sel.sc)

SpaceTriggers ==
  { <<"#">>, <<"#", "#">>, <<"#", "#", "#">>, <<">">>, <<"-">>, <<"*">>, <<"1", ".">> }

\* The elements the block of a trigger becomes.
KindOf(line) ==
  CASE line = <<"#">> -> {"h1"}
    [] line = <<"#", "#">> -> {"h2"}
    [] line = <<"#", "#", "#">> -> {"h3"}
    [] line = <<">">> -> {"blockquote"}
    [] line \in {<<"-">>, <<"*">>} -> {"ul", "li"}
    [] line = <<"1", ".">> -> {"ol", "li"}

C1Case == PlainKey(" ") /\ Block0 # <<>> /\ Line0 \in SpaceTriggers

\* C1: a space keydown with a caret whose line before the caret is exactly a
\* block trigger (#, ##, ###, >, -, *, 1.) is suppressed, the trigger is
\* recognized and deleted, the caret's block is of the trigger's kind, and no
\* trigger character is left in that block.
C1_SpaceTriggerConvertsBlock ==
  C1Case =>
    /\ ev.prevented
    /\ ev.trig = Line0
    /\ sel.n = 1
    /\ KindOf(Line0) \subseteq TagsAbove(dom, sel.sc)
    /\ LET left == TextOf(NodeAt(dom, BlockNow))
       IN \A i \in 1..Len(left) : left[i] \notin {"#", ">", "-", "*", "1", "."}

\* C1, the case that fails: the trigger is recognized and the key suppressed,
\* but the trigger is not in the caret's text node, and the block stays as it was.
C1_TriggerSwallowed ==
  C1Case /\ ev.prevented /\ ev.trig = <<>> /\ dom = ev.dom0

\* C1, the case that works: a paragraph holding ## became a level-2 heading.
C1_HeadingMade ==
  C1Case /\ Line0 = <<"#", "#">> /\ ev.trig = Line0 /\ NodeAt(dom, BlockNow).tag = "h2"

C2Case == PlainKey(" ") /\ IsText(Node0)

\* The run a conversion made: the node before the caret's text node.
MadeRun == NodeAt(dom, Parent(sel.sc) \o <<Last(sel.sc) - 1>>)

\* What each text of InlineTexts is to become: the element, "" for none.
ExpectedRun(t) ==
  CASE t = <<"*", "*", "a", "*", "*">> -> "strong"
    [] t \in {<<"*", "a", "*">>, <<"_", "a", "_">>} -> "em"
    [] t \in {<<"~", "~", "a", "~", "~">>, <<"~f", "~f", "a", "~f", "~f">>} -> "s"
    [] t = <<"BT", "a", "BT">> -> "code"
    [] t \in {<<"+", "+", "a", "+", "+">>, <<"<", "u", ">", "a", "<", "/", "u", ">">>} -> "u"
    [] t = <<"[", "a", "]", "(", "b", ")">> -> "a"
    [] OTHER -> ""

\* The text of the document the event met, with c typed at the caret.
TextWithTyped(c) ==
  LET all == TextOf(ev.dom0)
      k == Len(TextBefore(ev.dom0, ev.sel0.sc, ev.sel0.so))
  IN SubSeq(all, 1, k) \o <<c>> \o SubSeq(all, k + 1, Len(all))

\* C2: on a space keydown with a caret in a text node, the pattern applied is
\* the first of the fixed order that matches the text before the caret, the
\* run made is that pattern's (**a** gives a bold run, never an italic one),
\* and when none matches (as for ****) nothing is converted and, the line
\* being no block trigger either, the space is typed as plain text.
C2_FirstMatchingPatternApplies ==
  C2Case =>
    /\ \A j \in 1..NumPatterns : PatternMatch(j, Before0).ok => ev.inl \in 1..j
    /\ ev.inl # 0 => /\ PatternMatch(ev.inl, Before0).ok
                     /\ MadeRun.tag = PatternTag(ev.inl)
    /\ \A t \in InlineTexts :
         Before0 = t =>
           IF ExpectedRun(t) = "" THEN ev.inl = 0
           ELSE ev.inl # 0 /\ MadeRun.tag = ExpectedRun(t) /\ TextOf(MadeRun) = <<"a">>
    /\ (ev.inl = 0 /\ Trim(ReplaceNbsp(Before0)) \notin SpaceTriggers
                   /\ Trim(Line0) \notin SpaceTriggers) =>
         ~ev.prevented /\ ev.trig = <<>> /\ TextOf(dom) = TextWithTyped(" ")

\* C2, bold: the text **a** before the caret became a <strong> holding a.
C2_BoldMade ==
  C2Case /\ Before0 = <<"*", "*", "a", "*", "*">> /\ MadeRun.tag = "strong"

\* C3: a conversion puts, in place of the caret's text node, the text before
\* the match, one run of the pattern holding the inner text alone, one text
\* node holding one space, and the text that followed the caret, unchanged;
\* the caret is in the space's text node, after the space; the key is
\* suppressed; the caret is under the elements the text was under, so what is
\* typed next is outside the new run.
C3_OneRunOneSpaceCaretAfter ==
  (ev.op = "key" /\ ev.inl # 0) =>
    LET par == Parent(ev.sel0.sc)
        i == Last(ev.sel0.sc)
        old == NodeAt(ev.dom0, par).kids
        new == NodeAt(dom, par).kids
        mt == PatternMatch(ev.inl, Before0)
    IN /\ ev.prevented
       /\ Len(new) = Len(old) + 3
       /\ SubSeq(new, 1, i - 1) = SubSeq(old, 1, i - 1)
       /\ SubSeq(new, i + 4, Len(new)) = SubSeq(old, i + 1, Len(old))
       /\ new[i] = Txt(SubSeq(Before0, 1, mt.start - 1))
       /\ new[i + 1].tag = PatternTag(ev.inl) /\ new[i + 1].kids = <<Txt(mt.inner)>>
       /\ mt.inner # <<>> /\ Len(mt.inner) < Len(Before0) - (mt.start - 1)
       /\ new[i + 2] = Txt(<<" ">>)
       /\ new[i + 3] = Txt(SubSeq(Node0.data, ev.sel0.so + 1, Len(Node0.data)))
       /\ sel = Caret(par \o <<i + 2>>, 1)
       /\ TagsAbove(dom, sel.sc) = TagsAbove(ev.dom0, ev.sel0.sc) \cup {"#text"}
       /\ SetNode(dom, par, NodeAt(ev.dom0, par)) = ev.dom0

\* C3, with text after the caret: **a** before the caret and z after it
\* became a bold a, a space holding the caret, and z.
C3_ConvertedBeforeFollowingText ==
  /\ ev.op = "key" /\ ev.inl = 1
  /\ Node0.data = <<"*", "*", "a", "*", "*", "z">>
  /\ NodeAt(dom, sel.sc).data = <<" ">>
  /\ TextOf(dom) = <<"a", " ", "z">>

C4Case == PlainKey("Enter") /\ Block0 # <<>> /\ Line0 \in {<<"-", "-", "-">>, <<"*", "*", "*">>}

\* C4: an Enter keydown with a caret whose line before the caret is exactly
\* --- or *** is suppressed, the trigger is recognized and deleted, and the
\* caret is in a fresh empty paragraph that directly follows a horizontal rule.
C4_EnterTriggerMakesRule ==
  C4Case =>
    /\ ev.prevented
    /\ ev.trig = Line0
    /\ sel.n = 1
    /\ BlockNow # <<>> /\ NodeAt(dom, BlockNow) = El("p", <<Br>>)
    /\ Last(BlockNow) > 1
    /\ NodeAt(dom, Parent(BlockNow) \o <<Last(BlockNow) - 1>>).tag = "hr"

\* C4, the case that fails: --- in a paragraph, Enter, and the document has
\* the trigger text still and no horizontal rule.
C4_ParagraphBreakInstead ==
  /\ C4Case /\ NodeAt(ev.dom0, Block0).tag = "p"
  /\ ev.trig = <<>>
  /\ TextOf(dom) = <<"-", "-", "-">>
  /\ \A q \in PathsOf(dom) : NodeAt(dom, q).tag # "hr"

\* The children of an element that are runs: an empty text node is none.
Runs(ks) == SelectSeq(ks, LAMBDA n : ~(IsText(n) /\ n.data = <<>>))

\* Two runs with the same attributes: two text nodes, or two inline elements
\* of one tag with the same attribute.
SameRun(a, b) ==
  \/ IsText(a) /\ IsText(b)
  \/ a.tag = b.tag /\ a.tag \in InlineTags /\ a.attr = b.attr

Merged(d) ==
  \A q \in PathsOf(d) :
    q # <<>> =>
      LET r == Runs(NodeAt(d, q).kids)
      IN \A i \in 1..(Len(r) - 1) : ~SameRun(r[i], r[i + 1])

\* C5: in every state, no element below the editor has two adjacent runs
\* with the same attributes (two text nodes that are not empty, or two inline
\* elements of one tag and attribute).
C5_NoAdjacentRunsAlike == Merged(dom)

\* C5, a case that fails: the link popover's remove button leaves the link's
\* text in a text node of its own next to the text around it.
C5_RemoveLinkLeavesSplitText ==
  ev.op = "removelink" /\ Merged(ev.dom0) /\ ~Merged(dom)

C6Case ==
  /\ ev.op = "key" /\ ~ev.composing /\ ~ev.e.ctrl /\ ev.img0 = 0
  /\ ev.sel0.n = 1 /\ IsCollapsed(ev.sel0) /\ Block0 = <<>>

\* C6: after the handlers of a keydown that met a caret in no block, the
\* caret is in a block below the editor, and a run an inline conversion has
\* made is not a child of the editor element.
C6_RootCaretGetsParagraph ==
  C6Case =>
    /\ ev.selE.n = 1 /\ ClosestBlock(ev.domE, ev.selE.sc) # <<>>
    /\ ev.inl # 0 => Len(sel.sc) > 1

\* C6, the case that fails: text typed directly in the editor element ends
\* in **a**, and the conversion leaves a <strong> that is a child of the editor.
C6_RunUnderRoot ==
  C6Case /\ ev.inl = 1 /\ Len(sel.sc) = 1 /\ MadeRun.tag = "strong"
         /\ ClosestBlock(dom, sel.sc) = <<>>

\* C7: an event that comes during a composition (isComposingRef set, or the
\* keydown's isComposing) leaves the tree, the selection and the typing style
\* as it met them, and no recognizer matches.
C7_ComposingFreezesEngine ==
  (ev.op # "init" /\ ev.composing) =>
    /\ ev.domE = ev.dom0 /\ ev.selE = ev.sel0 /\ ev.typingE = ev.typing0
    /\ ev.inl = 0 /\ ev.trig = <<>>

\* C7, a case that fails: a click on an image during a composition removes
\* the selection.
C7_ClickWhileComposing ==
  composing /\ ev.composing /\ ev.op = "click" /\ ev.sel0.n = 1 /\ ev.selE = NoSel /\ img # 0

\* C7, the guarded case: a space keydown during a composition after **a**
\* converts nothing.
C7_KeyWhileComposing ==
  /\ ev.op = "key" /\ ev.composing /\ ev.e.key = " "
  /\ ev.sel0.n = 1 /\ IsText(Node0) /\ Before0 = <<"*", "*", "a", "*", "*">>
  /\ ev.domE = ev.dom0

C8Case ==
  /\ PlainKey("Enter") /\ Block0 # <<>>
  /\ TagsAbove(ev.dom0, ev.sel0.sc) \cap {"ul", "ol", "li"} = {}

\* C8: after an Enter keydown with a caret in a block outside a list, the
\* key is suppressed, the block is as it was, and the caret is at the start
\* of a new <p><br></p> that is the block's next sibling, with no inline
\* element above it and no toggle on.
C8_EnterMakesPlainParagraph ==
  C8Case =>
    LET nb == Parent(Block0) \o <<Last(Block0) + 1>>
    IN /\ ev.prevented
       /\ NodeAt(dom, Block0) = NodeAt(ev.dom0, Block0)
       /\ NodeAt(dom, nb) = El("p", <<Br>>)
       /\ sel = Caret(nb, 0)
       /\ TagsAbove(dom, sel.sc) \cap InlineTags = {}
       /\ \A c \in ToggleCmds : ~QueryCommandState(Before, c)

\* C8, a heading: Enter with the caret in an <em> of an <h2> gave a <p>
\* after the heading.
C8_ParagraphAfterHeading ==
  /\ C8Case /\ NodeAt(ev.dom0, Block0).tag = "h2" /\ "em" \in TagsAbove(ev.dom0, ev.sel0.sc)
  /\ NodeAt(dom, BlockNow) = El("p", <<Br>>)
  /\ BlockNow = <<2>>

C9Case ==
  /\ ev.op = "key" /\ ev.e.key = "Enter" /\ ~ev.composing /\ ev.sel0.n = 1
  /\ TagsAbove(ev.dom0, ev.sel0.sc) \cap {"ul", "ol"} # {}

\* C9: the handlers of an Enter keydown with a caret in a list do not
\* suppress the key and leave the tree and the selection as they met them.
C9_EnterInListLeftToHost ==
  C9Case => ~ev.prevented /\ ev.domE = ev.dom0 /\ ev.selE = ev.sel0

\* C9, the case that fails: the caret is in a <strong> of a list item, and
\* handleKeyDown suppresses Enter, moves the caret and breaks the item itself.
C9_EngineBreaksListItem ==
  /\ C9Case /\ ~ev.e.shift
  /\ "strong" \in TagsAbove(ev.dom0, ev.sel0.sc)
  /\ Line0 \notin {<<"-", "-", "-">>, <<"*", "*", "*">>}
  /\ ev.prevented /\ ev.domE # ev.dom0

\* The toggle of the style each pattern consumes.
ConsumedToggle(i) ==
  CASE i = 1 -> {"bold"}
    [] i \in {2, 3} -> {"italic"}
    [] i = 4 -> {"strikeThrough"}
    [] i \in {6, 7} -> {"underline"}
    [] OTHER -> {}

\* C10: after an inline conversion, outside a heading the toggle of the
\* consumed style is off at the caret; in an h1, h2 or h3 the conversion has
\* toggled nothing.
C10_ConsumedToggleOffOutsideHeading ==
  (ev.op = "key" /\ ev.inl # 0) =>
    IF IsSelectionInsideHeading(Before)
    THEN typing \cap ToggleCmds = {}
    ELSE \A c \in ConsumedToggle(ev.inl) : ~QueryCommandState(Before, c)

\* C10, the case that fails: *a* typed in an <em> of an <h2>; the
\* conversion toggles italic although the caret is in a heading.
C10_ToggledInHeading ==
  /\ ev.op = "key" /\ ev.inl = 2
  /\ IsSelectionInsideHeading(Before)
  /\ "italic" \in typing

\* C10, outside a heading: **a** typed in a <strong> of a paragraph; bold,
\* on by the context, is toggled off.
C10_BoldOffInParagraph ==
  /\ ev.op = "key" /\ ev.inl = 1
  /\ ~IsSelectionInsideHeading(Before)
  /\ "bold" \in ContextCmds(dom, sel.sc, hb) /\ "bold" \in typing

(***************************************************************************)
(* The reset flag                                                          *)
(***************************************************************************)

\* C11: the reset flag is false after a keydown (not composing) of a single
\* printable character without Ctrl/Meta that completes no inline conversion,
\* after every Enter the engine handles, and after every compositionend.
C11_FlagClearedByKeyEnterCompositionEnd ==
  /\ (ev.op = "key" /\ ~ev.composing /\ ev.e.key \in {" ", "a"} /\ ~ev.e.ctrl /\ ev.inl = 0) => ~flag
  /\ (ev.op = "key" /\ ~ev.composing /\ ev.e.key = "Enter") => ~flag
  /\ ev.op = "compositionend" => ~flag

\* C11: a character typed with the flag armed has consumed it.
C11_FlagConsumed ==
  ev.op = "key" /\ ~ev.composing /\ ev.e.key = "a" /\ ev.flag0 /\ ev.inl = 0 /\ ~flag

\* The node just before a caret at an element boundary is a span the color
\* or highlight command made.
CaretAfterStyledSpan ==
  /\ sel.n = 1 /\ IsCollapsed(sel)
  /\ ~IsText(NodeAt(dom, sel.sc)) /\ sel.so >= 1
  /\ LET b == NodeAt(dom, sel.sc).kids[sel.so]
     IN ~IsText(b) /\ b.tag = "span" /\ b.attr # <<>> /\ b.attr[1] \in {"color", "backgroundColor"}

\* A color or highlight command on a selection that is not collapsed.
ColorOnRange == ev.op \in {"color", "highlight"} /\ ev.sel0.n = 1 /\ ~IsCollapsed(ev.sel0)

\* C12: the reset flag is set after every inline conversion and after every
\* color or highlight command on a selection that is not collapsed; after
\* such a command the caret is just outside the styled span.
C12_FlagSetAfterConversionAndColor ==
  /\ (ev.op = "key" /\ ev.inl # 0) => flag
  /\ ColorOnRange => (flag /\ CaretAfterStyledSpan)

\* C12: a text color was applied to a selected text and the flag is not set.
C12_ColorLeavesFlagUnset ==
  ColorOnRange /\ ev.op = "color" /\ CaretAfterStyledSpan /\ ~flag

\* C13: a keydown on a selection that is not collapsed triggers no block and
\* no inline conversion: the recognizers leave the tree alone and do not
\* suppress the key.
C13_NoShortcutOnRange ==
  (ev.op = "key" /\ ev.sel0.n = 1 /\ ~IsCollapsed(ev.sel0))
    => (ev.inl = 0 /\ ev.trig = <<>> /\ ev.domE = ev.dom0 /\ ~ev.prevented)

\* C13: a space typed over a selection that follows a block trigger.
C13_SpaceOverSelectionAfterTrigger ==
  /\ ev.op = "key" /\ ev.e.key = " " /\ ev.sel0.n = 1 /\ ~IsCollapsed(ev.sel0)
  /\ IsText(NodeAt(ev.dom0, ev.sel0.sc))
  /\ SubSeq(NodeAt(ev.dom0, ev.sel0.sc).data, 1, ev.sel0.so) = <<"#">>
  /\ TextOf(dom) = <<"#", " ">>

(***************************************************************************)
(* The toolbar's color and font size commands                              *)
(***************************************************************************)

\* A command of the toolbar met a caret / a selection that is not collapsed.
OnCaret(styles) == ev.op \in styles /\ ev.sel0.n = 1 /\ IsCollapsed(ev.sel0)

OnRange(styles) == ev.op \in styles /\ ev.sel0.n = 1 /\ ~IsCollapsed(ev.sel0)

\* C14: with a collapsed selection the color, highlight and font size
\* commands leave the tree, the selection and the typing style as they were.
C14_CollapsedStyleCommandsChangeNothing ==
  OnCaret({"color", "highlight", "fontSize", "fontSizeIncrease", "fontSizeDecrease"})
    => (dom = ev.dom0 /\ sel = ev.sel0 /\ typing = ev.typing0)

\* C14: growFontSize on a caret put an empty font-size span into the tree and
\* the caret into it.
C14_EmptyFontSpanInserted ==
  /\ OnCaret({"fontSizeIncrease"})
  /\ dom # ev.dom0
  /\ NodeAt(dom, sel.sc).tag = "span" /\ NodeAt(dom, sel.sc).kids = <<>>
  /\ NodeAt(dom, sel.sc).attr[1] = "fontSize"

\* The size of the span a font size command made (the command selects it),
\* and the baseline the command read.
MadeSize == ParseInt(Tail(NodeAt(dom, sel.sc).attr), 0)

Baseline0 == GetFontSizeFromNode(ev.dom0, ev.sel0.sc)

\* C15: growFontSize makes the size the baseline plus 4, shrinkFontSize the
\* baseline minus 4, and for every baseline the size made lies in [10, 72].
C15_GrowShrinkByStepWithinBounds ==
  /\ OnRange({"fontSizeIncrease"}) =>
       /\ MadeSize \in 10..72
       /\ Baseline0 + 4 <= 72 => MadeSize = Baseline0 + 4
  /\ OnRange({"fontSizeDecrease"}) =>
       /\ MadeSize \in 10..72
       /\ Baseline0 - 4 >= 10 => MadeSize = Baseline0 - 4

\* C15: shrinkFontSize on a text of 100px made a size of 96px.
C15_ShrinkLeavesSizeAboveMax ==
  OnRange({"fontSizeDecrease"}) /\ Baseline0 = 100 /\ MadeSize = 96

\* C15: the default baseline: growFontSize on a text without a size made 20px.
C15_GrowFromDefault ==
  OnRange({"fontSizeIncrease"}) /\ Baseline0 = 16 /\ MadeSize = 20

\* The colored spans of the tree d and the texts they hold.
ColorSpans(d) ==
  {q \in PathsOf(d) : LET n == NodeAt(d, q)
                      IN ~IsText(n) /\ n.tag = "span" /\ n.attr # <<>> /\ n.attr[1] = "color"}

ColoredTexts(d) == {<<q, TextOf(NodeAt(d, q))>> : q \in ColorSpans(d)}

\* C16: a text color applied to a selection that is not collapsed wraps
\* exactly the selected content in one colored span (the text before and
\* after it stays outside), collapses the selection and leaves the caret
\* outside every inline formatting element; a character typed right after
\* the command is not colored.
C16_ColorWrapsSelectionTypingUncolored ==
  /\ OnRange({"color"}) =>
       /\ \E q \in ColorSpans(dom) \ ColorSpans(ev.dom0) :
            /\ ColorSpans(dom) \ ColorSpans(ev.dom0) = {q}
            /\ TextBefore(dom, q, 0) = TextBefore(ev.dom0, ev.sel0.sc, ev.sel0.so)
            /\ TextOf(NodeAt(dom, q)) = SelectedText([dom |-> ev.dom0, sel |-> ev.sel0])
       /\ TextOf(dom) = TextOf(ev.dom0)
       /\ IsCollapsed(sel)
       /\ TagsAbove(dom, sel.sc) \cap InlineTags = {}
  /\ (PlainKey("a") /\ ev.prev = "color" /\ ColorSpans(ev.dom0) # {}) =>
       /\ ColoredTexts(dom) = ColoredTexts(ev.dom0)
       /\ Len(TextOf(dom)) = Len(TextOf(ev.dom0)) + 1

\* C16: the character typed after the color command went into the colored span.
C16_TypedTextColored ==
  /\ PlainKey("a") /\ ev.prev = "color" /\ ev.typing0 = {} /\ ~ev.flag0
  /\ \E q \in ColorSpans(ev.dom0) :
       /\ q \in ColorSpans(dom)
       /\ TextOf(NodeAt(dom, q)) = Append(TextOf(NodeAt(ev.dom0, q)), "a")
       /\ ev.sel0 = Caret(Parent(q), Last(q))

(***************************************************************************)
(* The attached document                                                   *)
(***************************************************************************)

\* What the editor shows of the content prop c: c || '<p><br></p>'
Shown(c) == IF c.kids = <<>> THEN El("div", <<El("p", <<Br>>)>>) ELSE c

\* C17: when the store attaches another document, the tree is that
\* document's content after the step, and what onChange reports next comes
\* from a tree of the attached document, not of the one before.
C17_SwapReplacesTree ==
  /\ ev.op = "swap" => InnerHTML(dom) = Shown(content)
  /\ (ev.prev = "swap" /\ ev.inputs > 0) => InnerHTML(ev.dom0) = Shown(ev.content0)

\* C17: the editor had the focus when the document was attached: the tree is
\* still the previous document's.
C17_FocusedEditorKeepsOldTree ==
  /\ ev.op = "swap" /\ focused /\ dom = ev.dom0
  /\ content # ev.content0 /\ InnerHTML(dom) # Shown(content)

\* C17: the tree was replaced by the attached document.
C17_TreeReplaced ==
  ev.op = "swap" /\ dom # ev.dom0 /\ InnerHTML(dom) = Shown(content)

\* C17: handleInput() of a command that changed nothing left isInternalChange
\* set, and the next document attached did not reach the tree.
C17_StaleInternalChangeKeepsOldTree ==
  /\ ev.op = "swap" /\ ~focused /\ dom = ev.dom0 /\ InnerHTML(dom) # Shown(content)

\* C18: when another document is attached, the selected image is null, no
\* link session is open and the reset flag is false; neither session refers
\* to a node that is not in the tree.
C18_SwapClearsSessions ==
  ev.op = "swap" =>
    /\ img = 0 /\ link = 0 /\ ~flag
    /\ img # 0 => PathOfId(dom, img) # Null
    /\ link # 0 => PathOfId(dom, link) # Null

\* C18: the tree was replaced and the link session still holds the link of
\* the previous document.
C18_LinkSessionSurvivesSwap ==
  /\ ev.op = "swap" /\ dom # ev.dom0
  /\ link # 0 /\ PathOfId(dom, link) = Null /\ PathOfId(ev.dom0, link) # Null

\* C18: the tree was replaced and the reset flag is still set.
C18_FlagSurvivesSwap ==
  ev.op = "swap" /\ dom # ev.dom0 /\ flag

(***************************************************************************)
(* The export: ev.md is the Markdown of ev.content0.                       *)
(***************************************************************************)

\* sub occurs in s
Contains(s, sub) == \E i \in 0..(Len(s) - Len(sub)) : SubSeq(s, i + 1, i + Len(sub)) = sub

\* The text runs of the exported document that carry one inline attribute:
\* the non-blank text nodes whose parent is an element of tags directly
\* inside a block.
ExportedRuns(tags) ==
  {p \in PathsOf(ev.content0) :
     /\ Len(p) >= 3
     /\ IsText(NodeAt(ev.content0, p))
     /\ Trim(NodeAt(ev.content0, p).data) # <<>>
     /\ NodeAt(ev.content0, Parent(p)).tag \in tags
     /\ NodeAt(ev.content0, Parent(Parent(p))).tag \in BlockTags}

\* The run at p in the Markdown inline syntax of its element.
Marked(p) ==
  LET t == NodeAt(ev.content0, p).data
      e == NodeAt(ev.content0, Parent(p))
  IN CASE e.tag \in {"strong", "b"} -> <<"*", "*">> \o t \o <<"*", "*">>
       [] e.tag \in {"em", "i"} -> <<"*">> \o t \o <<"*">>
       [] e.tag \in {"s", "del"} -> <<"~", "~">> \o t \o <<"~", "~">>
       [] e.tag = "code" -> <<"BT">> \o t \o <<"BT">>
       [] e.tag = "a" -> <<"[">> \o t \o <<"]", "(">> \o Tail(e.attr) \o <<")">>

\* C19: the exported Markdown contains every non-empty text run wrapped in
\* the inline syntax of its attribute (bold, italic, strikethrough, inline
\* code, link); the markers survive the clean-up.
C19_RunsKeepTheirMarkers ==
  ev.op = "export" =>
    \A p \in ExportedRuns({"strong", "b", "em", "i", "s", "del", "code", "a"}) : Contains(ev.md, Marked(p))

\* A bold run was exported: its text is in the file, no ** is.
C19_BoldMarkersRemoved ==
  /\ ev.op = "export"
  /\ \E p \in ExportedRuns({"strong", "b"}) : Contains(ev.md, NodeAt(ev.content0, p).data)
  /\ ~Contains(ev.md, <<"*", "*">>)

\* An italic, a struck, a code or a link run was exported with its markers.
C19_OtherMarkersKept ==
  /\ ev.op = "export"
  /\ \E p \in ExportedRuns({"em", "i", "s", "del", "code", "a"}) : Contains(ev.md, Marked(p))

\* The lines of the text s.
Lines(s) ==
  {SubSeq(s, ij[1], ij[2]) : ij \in {x \in (1..Len(s)) \X (1..Len(s)) :
     /\ x[1] <= x[2]
     /\ (x[1] = 1 \/ s[x[1] - 1] = "NL")
     /\ (x[2] = Len(s) \/ s[x[2] + 1] = "NL")
     /\ \A l \in x[1]..x[2] : s[l] # "NL"}}

\* The only child of a block is a text of one line that holds no inline marker.
PlainBlock(b) ==
  /\ Len(b.kids) = 1
  /\ IsText(b.kids[1])
  /\ Trim(b.kids[1].data) # <<>>
  /\ \A i \in 1..Len(b.kids[1].data) : b.kids[1].data[i] \notin {"*", "~", "BT", "<", "NL"}

\* The blocks of the exported document the claim speaks of: the rules, and
\* the plain headings, quotes and paragraphs of the top level and the plain
\* items of its lists.
ExportedBlocks(tags) ==
  {p \in PathsOf(ev.content0) :
     LET b == NodeAt(ev.content0, p)
     IN /\ b.tag \in tags
        /\ \/ Len(p) = 1 /\ b.tag = "hr"
           \/ Len(p) = 1 /\ b.tag \in {"h1", "h2", "h3", "blockquote", "p"} /\ PlainBlock(b)
           \/ Len(p) = 2 /\ b.tag = "li" /\ PlainBlock(b)
                         /\ NodeAt(ev.content0, Parent(p)).tag \in {"ul", "ol"}}

\* The line of the block at p in Markdown block syntax.
BlockLine(p) ==
  LET b == NodeAt(ev.content0, p)
      t == IF b.tag = "hr" THEN <<>> ELSE Trim(b.kids[1].data)
  IN CASE b.tag = "h1" -> <<"#", " ">> \o t
       [] b.tag = "h2" -> <<"#", "#", " ">> \o t
       [] b.tag = "h3" -> <<"#", "#", "#", " ">> \o t
       [] b.tag = "blockquote" -> <<">", " ">> \o t
       [] b.tag = "li" /\ NodeAt(ev.content0, Parent(p)).tag = "ol" ->
            Decimal(Last(p)) \o <<".", " ">> \o t
       [] b.tag = "li" -> <<"-", " ">> \o t
       [] b.tag = "hr" -> <<"-", "-", "-">>
       [] OTHER -> t

AllBlockTags == {"h1", "h2", "h3", "blockquote", "p", "li", "hr"}

\* C20: the exported Markdown holds, for every block of the document, the
\* line of its block syntax (# / ## / ### headings, > quotes, - and i. list
\* items, --- for a horizontal rule, the text of a paragraph), and one
\* blank line between two paragraphs that follow each other: no block is
\* left out.
C20_BlocksKeepTheirSyntax ==
  ev.op = "export" =>
    /\ \A p \in ExportedBlocks(AllBlockTags) : BlockLine(p) \in Lines(ev.md)
    /\ \A p, q \in ExportedBlocks({"p"}) :
         q[1] = p[1] + 1 =>
           Contains(ev.md, <<"NL">> \o BlockLine(p) \o <<"NL", "NL">> \o BlockLine(q) \o <<"NL">>)

\* A document with a horizontal rule was exported: the file has no --- in it.
C20_RuleOmitted ==
  /\ ev.op = "export"
  /\ ExportedBlocks({"hr"}) # {}
  /\ ~Contains(ev.md, <<"-", "-", "-">>)

\* A heading, two paragraphs and the second item of a numbered list were
\* exported in their syntax.
C20_OtherBlocksKept ==
  /\ ev.op = "export"
  /\ \E p \in ExportedBlocks({"h1", "h2", "h3"}) : BlockLine(p) \in Lines(ev.md)
  /\ \E p, q \in ExportedBlocks({"p"}) :
       /\ q[1] = p[1] + 1
       /\ Contains(ev.md, <<"NL">> \o BlockLine(p) \o <<"NL", "NL">> \o BlockLine(q) \o <<"NL">>)
  /\ \E p \in ExportedBlocks({"li"}) : Last(p) = 2 /\ BlockLine(p) = <<"2", ".", " ", "d">>
                                       /\ BlockLine(p) \in Lines(ev.md)

\* The images of the exported document.
ExportedImages == {p \in PathsOf(ev.content0) : NodeAt(ev.content0, p).tag = "img"}

\* C21: the exported Markdown holds ![alt](src) for every image of the
\* document, with the alt and src of the image (the editor's images have
\* no alt).
C21_ImagesExported ==
  ev.op = "export" =>
    \A p \in ExportedImages :
      Contains(ev.md, <<"!", "[", "]", "(">> \o Tail(NodeAt(ev.content0, p).attr) \o <<")">>)

\* A document with an image was exported: neither ![ nor the src of the
\* image is in the file.
C21_ImageOmitted ==
  /\ ev.op = "export"
  /\ \E p \in ExportedImages :
       /\ NodeAt(ev.content0, p).attr = <<"src", "x">>
       /\ ~Contains(ev.md, <<"x">>)
  /\ ~Contains(ev.md, <<"!", "[">>)

\* The value of style attribute k in force at p: that of the nearest
\* element at or above p that sets it, <<>> when none does.
StyleInForce(p, k) ==
  LET as == Ancestors(p)
      hits == {i \in 1..Len(as) : LET a == NodeAt(ev.content0, as[i]).attr IN a # <<>> /\ a[1] = k}
      a == NodeAt(ev.content0, as[CHOOSE i \in hits : \A j \in hits : i <= j]).attr
  IN IF hits = {} THEN <<>> ELSE IF k = "fontSize" THEN Tail(a) ELSE a[2]

\* The style declarations of the run at p, one for each attribute in force.
Declarations(p) ==
  (IF StyleInForce(p, "color") = <<>> THEN <<>>
   ELSE <<"color:">> \o StyleInForce(p, "color") \o <<";">>)
  \o (IF StyleInForce(p, "backgroundColor") = <<>> THEN <<>>
      ELSE <<"background-color:">> \o StyleInForce(p, "backgroundColor") \o <<";">>)
  \o (IF StyleInForce(p, "fontSize") = <<>> THEN <<>>
      ELSE <<"font-size:">> \o StyleInForce(p, "fontSize") \o <<";">>)

\* The non-empty text runs of the exported document with a style in force.
StyledRuns ==
  {p \in PathsOf(ev.content0) :
     /\ IsText(NodeAt(ev.content0, p))
     /\ NodeAt(ev.content0, p).data # <<>>
     /\ Declarations(p) # <<>>}

\* The run at p is a text without inline markers below style spans only.
PlainStyledRun(p) ==
  /\ \A i \in 1..Len(NodeAt(ev.content0, p).data) :
       NodeAt(ev.content0, p).data[i] \notin {"*", "~", "BT", "<"}
  /\ \A i \in 2..Len(p) :
       LET n == NodeAt(ev.content0, SubSeq(p, 1, i - 1))
       IN n.tag \in BlockTags \/ (n.tag = "span" /\ n.attr # <<>> /\ n.attr[1] # "toggle")

\* The places of token tok in the text s.
Places(s, tok) == {i \in 1..Len(s) : s[i] = tok}

C23_BeginsWithTitleAsGiven ==
  ev.op = "export" =>
    /\ Len(ev.md) >= 2 + Len(ev.title)
    /\ SubSeq(ev.md, 1, 2 + Len(ev.title)) = <<"#", " ">> \o ev.title

\* The document titled a**b was exported: the file begins with "# ab".
C23_TitleAltered ==
  /\ ev.op = "export"
  /\ ev.title = <<"a", "*", "*", "b">>
  /\ SubSeq(ev.md, 1, 5) = <<"#", " ", "a", "b", "NL">>

\* The text s holds three line feeds in a row.
ThreeLineFeeds(s) == Contains(s, <<"NL", "NL", "NL">>)

\* C24: the exported Markdown holds no three line feeds in a row, does not
\* begin with a line feed and does not end with a blank line.
C24_NoExtraBlankLines ==
  ev.op = "export" =>
    /\ ~ThreeLineFeeds(ev.md)
    /\ ev.md # <<>> /\ ev.md[1] # "NL"
    /\ ~EndsWith(ev.md, <<"NL", "NL">>)

\* A document was exported whose serialization, before the clean-up, held
\* three line feeds in a row and ended with a blank line.
C24_BlankLinesCollapsed ==
  /\ ev.op = "export"
  /\ ThreeLineFeeds(HtmlToMarkdownUncleaned(ev.content0, ev.title))
  /\ EndsWith(HtmlToMarkdownUncleaned(ev.content0, ev.title), <<"NL", "NL">>)
  /\ EndsWith(ev.md, <<"NL">>)

\* The exported document with the inline element around the run at p taken
\* away: a tree that differs from it in one inline attribute of that run.
WithoutAttribute(p) == ReplaceChild(ev.content0, Parent(p), <<NodeAt(ev.content0, p)>>)

\* C25: the serialization keeps the block kinds and the inline attributes
\* of every run, so that re-parsing can reproduce them: a tree that differs
\* from the exported one in an inline attribute of a non-empty run does
\* not serialize to the same text.
C25_DifferentTreesDifferentText ==
  ev.op = "export" =>
    \A p \in ExportedRuns({"strong", "b", "em", "i", "s", "del", "code", "a"}) :
      HtmlToMarkdown(WithoutAttribute(p), ev.title) # ev.md

\* A document with a bold run was exported: the document with that run
\* not bold serializes to the same text.
C25_BoldAndPlainSerializeAlike ==
  /\ ev.op = "export"
  /\ \E p \in ExportedRuns({"strong", "b"}) :
       /\ WithoutAttribute(p) # ev.content0
       /\ HtmlToMarkdown(WithoutAttribute(p), ev.title) = ev.md

\* The caret's text node follows a <br> that follows earlier content of the
\* block, and holds - before the caret.
AfterBreakElement ==
  /\ Len(ev.sel0.sc) = Len(Block0) + 1
  /\ Last(ev.sel0.sc) >= 3
  /\ NodeAt(ev.dom0, Block0).kids[Last(ev.sel0.sc) - 1].tag = "br"
  /\ Before0 = <<"-">>

\* The caret's text node holds earlier text, a line feed and - before the caret.
AfterLineFeed ==
  /\ Len(Before0) >= 3
  /\ SubSeq(Before0, Len(Before0) - 1, Len(Before0)) = <<"NL", "-">>

C26Case ==
  /\ PlainKey(" ") /\ Block0 # <<>> /\ IsText(Node0)
  /\ AfterBreakElement \/ AfterLineFeed
  /\ Trim(SubSeq(BeforeInBlock0, 1, Len(BeforeInBlock0) - 1)) # <<>>

\* C26: a space keydown with the caret after a - that is all of the current
\* line, in a block holding an earlier line and a line break before it:
\* the key is suppressed, the earlier content stays in its paragraph, and
\* the current line is a bulleted list item in a list that follows it.
C26_CurrentLineBecomesListItem ==
  C26Case =>
    /\ ev.prevented
    /\ NodeAt(dom, Block0).tag = NodeAt(ev.dom0, Block0).tag
    /\ Trim(TextOf(NodeAt(dom, Block0))) = Trim(SubSeq(BeforeInBlock0, 1, Len(BeforeInBlock0) - 1))
    /\ Len(dom.kids) > Last(Block0)
    /\ dom.kids[Last(Block0) + 1].tag = "ul"
    /\ sel.n = 1 /\ {"ul", "li"} \subseteq TagsAbove(dom, sel.sc)

\* The line after a <br>: the key went to the host, the space was typed
\* after the -, and the document holds no list.
C26_LineAfterBreakNotConverted ==
  /\ C26Case /\ AfterBreakElement
  /\ ~ev.prevented
  /\ TextOf(dom) = TextOf(ev.dom0) \o <<" ">>
  /\ \A p \in PathsOf(dom) : NodeAt(dom, p).tag \notin {"ul", "li"}

\* The line after a line feed in the text: the list was made.
C26_LineAfterLineFeedConverted ==
  /\ C26Case /\ AfterLineFeed
  /\ ev.prevented
  /\ dom.kids[Last(Block0) + 1].tag = "ul"

\* The width the drag asks for: the start width changed by the pointer's
\* horizontal displacement, away from the dragged corner's side.
AskedWidth ==
  IF ev.drag0.corner \in {"nw", "sw"}
  THEN ev.drag0.startWidth - (ev.x - ev.drag0.startX)
  ELSE ev.drag0.startWidth + (ev.x - ev.drag0.startX)

\* C30: every size a corner drag writes to the selected image has a width
\* and a height of at least 50px; the width is the start width changed by
\* the pointer's displacement (50 when that is less), and the height is
\* the one the aspect ratio of pointer-down gives for that width, to the
\* nearest pixel (50 when that is less).
C30_DraggedSizeAtLeast50KeepsRatio ==
  ev.op = "resizemove" =>
    /\ imgSize.w >= 50 /\ imgSize.h >= 50
    /\ imgSize.w = (IF AskedWidth > 50 THEN AskedWidth ELSE 50)
    /\ imgSize.h > 50 =>
         /\ 2 * (imgSize.h * ev.drag0.startWidth - imgSize.w * ev.drag0.startHeight) <= ev.drag0.startWidth
         /\ 2 * (imgSize.w * ev.drag0.startHeight - imgSize.h * ev.drag0.startWidth) <= ev.drag0.startWidth
    /\ imgSize.h = 50 => 2 * imgSize.w * ev.drag0.startHeight < 101 * ev.drag0.startWidth

\* A drag made the image narrower than its aspect ratio allows at 50px of
\* height: the height written is 50.
C30_HeightHeldAtMinimum ==
  /\ ev.op = "resizemove"
  /\ imgSize.h = 50
  /\ imgSize.w * ev.drag0.startHeight < 50 * ev.drag0.startWidth
  /\ imgSize # ev.size0

\* A drag made the image wider and taller, the ratio kept.
C30_ResizedInRatio ==
  /\ ev.op = "resizemove"
  /\ imgSize.w > ev.size0.w /\ imgSize.h > ev.size0.h /\ imgSize.h > 50
  /\ imgSize.h * ev.drag0.startWidth = imgSize.w * ev.drag0.startHeight

(***************************************************************************)
(* The document store: the list, the restore of a backup, the auto-save.   *)
(***************************************************************************)

\* The updatedAt the object store holds for a document of the list.
PersistedAt(d) == IF store.db[d.id] = NoDoc THEN d.updatedAt ELSE store.db[d.id].updatedAt

\* The list is sorted pinned first and, within a pin state, by the persisted
\* updatedAt, the most recent first.
ListSorted ==
  \A i, j \in 1..Len(store.documents) :
    i < j => LET a == store.documents[i]
                 b == store.documents[j]
             IN /\ b.isPinned => a.isPinned
                /\ a.isPinned = b.isPinned => PersistedAt(a) >= PersistedAt(b)

\* An operation of the store returned that had no other call in flight
\* from its call to its return.
Completed(op) == sev.op = op /\ sev.done /\ sev.call.alone

\* C27: after every completed store operation the in-memory list is sorted
\* pinned first and then by the persisted updatedAt, most recent first.
C27_ListSortedAfterEveryOperation ==
  (\E op \in {"fetch", "create", "save", "delete", "pin", "import"} : Completed(op)) => ListSorted

\* C27: createDocument returned and the new, unpinned document stands above
\* a pinned one.
C27_NewDocumentAbovePinned ==
  /\ Completed("create")
  /\ Len(store.documents) >= 2
  /\ ~store.documents[1].isPinned /\ store.documents[2].isPinned

\* C27: saveDocument returned and the list holds the saved document with
\* the updatedAt it had before the save, out of the order of the persisted
\* updatedAt.
C27_SavedDocumentKeepsOldPlace ==
  /\ Completed("save")
  /\ \E i \in 1..Len(store.documents) :
       /\ store.documents[i].id = sev.call.id
       /\ store.documents[i].updatedAt < PersistedAt(store.documents[i])
  /\ ~ListSorted

\* C27: after fetchDocuments and importDocumentsFromJson, which set the
\* list from getAllDocs(), the list is sorted.
C27_ListSortedAfterFetchAndImport ==
  Completed("fetch") \/ Completed("import") => ListSorted

\* The object store after the documents of arg were put into db one by one.
RECURSIVE Upserted(_, _)
Upserted(db, arg) ==
  IF arg = <<>> THEN db ELSE Upserted([db EXCEPT ![Head(arg).id] = Head(arg)], Tail(arg))

\* C28: importDocumentsFromJson writes every document of the array under
\* its id and leaves the others alone, counts the documents written, and
\* leaves the list equal to the persisted documents.
C28_ImportUpsertsCountsAndRefreshes ==
  Completed("import") =>
    /\ store.db = Upserted(sev.call.db0, sev.call.arg)
    /\ sev.call.count = Len(sev.call.arg)
    /\ {store.documents[i] : i \in 1..Len(store.documents)} = {store.db[i] : i \in 1..4} \ {NoDoc}
    /\ Len(store.documents) = Cardinality({i \in 1..4 : store.db[i] # NoDoc})

\* C28: a backup of two documents was restored, one replacing a stored
\* document and one added, while a third stored document stayed as it was.
C28_BackupRestored ==
  /\ Completed("import")
  /\ Len(sev.call.arg) = 2
  /\ sev.call.db0[3] = NoDoc /\ store.db[3] = sev.call.arg[1]
  /\ sev.call.db0[2] # NoDoc /\ sev.call.db0[2] # store.db[2]
  /\ sev.call.db0[1] # NoDoc /\ sev.call.db0[1] = store.db[1]

\* C29: at any time at most one auto-save timer is pending, and the changes
\* of one user action start at most one save.
C29_OneTimerOneSave == store.pending <= 1 /\ sev.saves <= 1

\* C29: one user action called onChange twice and two auto-save timers
\* fired after it, each calling saveDocument().
C29_TwoSavesForOneAction == sev.op = "timer" /\ sev.saves = 2 /\ store.pending = 0

\* C29: a user action called onChange twice and two timers are pending.
C29_TwoTimersPending == sev.op = "change" /\ store.pending = 2

(***************************************************************************)
(* The selected image                                                      *)
(***************************************************************************)

\* The node a click hit, from the selection the pointer set before onClick:
\* the text node of a caret or of a selected text, the node a range encloses.
ClickedPath ==
  IF IsText(NodeAt(ev.dom0, ev.sel0.sc)) THEN ev.sel0.sc ELSE ev.sel0.sc \o <<ev.sel0.so + 1>>

\* The click was a click on a link: the node it hit or a node above is an a.
ClickedLink ==
  \E i \in 1..Len(ClickedPath) : NodeAt(ev.dom0, SubSeq(ClickedPath, 1, i)).tag = "a"

\* The place of the image that was selected when the event came.
ImagePath0 == PathOfId(ev.dom0, ev.img0)

\* What C31 has of the events other than a click on something that is no
\* image: a click on an image selects it, Escape deselects, Delete and
\* Backspace remove the selected image, clear the selection and leave the
\* caret where the image was, and a selected image is a node of the tree.
ImageSelectedAndRemoved ==
  /\ ev.op = "click" /\ NodeAt(ev.dom0, ClickedPath).tag = "img" /\ ~ClickedLink
       => img = NodeAt(ev.dom0, ClickedPath).id
  /\ ev.op = "key" /\ ev.img0 # 0 /\ ev.e.key = "Escape" => img = 0 /\ dom = ev.dom0
  /\ ev.op = "key" /\ ev.img0 # 0 /\ ev.e.key \in {"Delete", "Backspace"} /\ ImagePath0 # Null
       => /\ img = 0
          /\ dom = ReplaceChild(ev.dom0, ImagePath0, <<>>)
          /\ sel = Caret(Parent(ImagePath0), Last(ImagePath0) - 1)
  /\ img # 0 => PathOfId(dom, img) # Null

\* C31: the lifecycle of the selected image: selected by a click on it,
\* deselected by Escape and by any click in the editor on something that is
\* not an image, a click on a link included; removed by Delete or Backspace,
\* the caret left where it was; always a node of the current tree.
C31_ImageSelectionLifecycle ==
  /\ ImageSelectedAndRemoved
  /\ ev.op = "click" /\ NodeAt(ev.dom0, ClickedPath).tag # "img" => img = 0

\* C31: an image was selected, a link was clicked, and the image is still
\* selected.
C31_LinkClickKeepsImageSelected ==
  /\ ev.op = "click" /\ ClickedLink
  /\ ev.img0 # 0 /\ img = ev.img0 /\ link # 0

\* C31: the lifecycle holds when the clicks on links are left out.
C31_LifecycleApartFromLinkClicks ==
  /\ ImageSelectedAndRemoved
  /\ ev.op = "click" /\ NodeAt(ev.dom0, ClickedPath).tag # "img" /\ ~ClickedLink => img = 0

\* C31: a selected image was removed with Delete or Backspace.
C31_SelectedImageRemoved ==
  /\ ev.op = "key" /\ ev.img0 # 0 /\ ev.e.key \in {"Delete", "Backspace"}
  /\ img = 0 /\ PathOfId(dom, ev.img0) = Null /\ sel.n = 1

(***************************************************************************)
(* The block recognizer                                                    *)
(***************************************************************************)

EnterTriggers == { <<"-", "-", "-">>, <<"*", "*", "*">> }

\* The last keydown met a line before the caret that is, character for
\* character, a trigger of its key.
ExactTrigger0 ==
  \/ ev.e.key = " " /\ Line0 \in SpaceTriggers
  \/ ev.e.key = "Enter" /\ Line0 \in EnterTriggers

\* C32: a block conversion happens only if the text between the last line
\* break and the caret is exactly a trigger; a line with white space before
\* or after the trigger is not converted and its key is passed through.
C32_ConversionOnlyOnExactTrigger ==
  /\ ev.op = "key" /\ ev.trig # <<>> => ExactTrigger0
  /\ PlainKey(" ") /\ Line0 \notin SpaceTriggers /\ Trim(Line0) \in SpaceTriggers
       => ev.trig = <<>> /\ ~ev.prevented /\ ev.domE = ev.dom0

\* C32: the line " #" (a space, then the trigger) became a heading at the
\* space key.
C32_IndentedTriggerConverted ==
  /\ PlainKey(" ") /\ Line0 = <<" ", "#">>
  /\ ev.prevented /\ ev.trig = <<"#">> /\ NodeAt(dom, BlockNow).tag = "h1"

\* C32: the line "# " (the trigger, then a space) was converted at the
\* space key: the space was deleted for the trigger, the # is left in its
\* paragraph and an empty heading follows.
C32_TrailingSpaceDeletedForTrigger ==
  /\ PlainKey(" ") /\ Line0 = <<"#", " ">>
  /\ ev.trig = <<"#">> /\ NodeAt(dom, BlockNow).tag = "h1"
  /\ TextOf(NodeAt(dom, <<1>>)) = <<"#">> /\ NodeAt(dom, <<1>>).tag = "p"

\* C32: a block conversion happens only if the trimmed line before the
\* caret is a trigger of the key.
C32_ConversionOnlyOnTrimmedTrigger ==
  ev.op = "key" /\ ev.trig # <<>> =>
    \/ ev.e.key = " " /\ Trim(Line0) \in SpaceTriggers
    \/ ev.e.key = "Enter" /\ Trim(Line0) \in EnterTriggers

\* The text of the caret's block that followed the caret when the event came.
AfterInBlock0 ==
  SubSeq(TextOf(NodeAt(ev.dom0, Block0)), Len(BeforeInBlock0) + 1, Len(TextOf(NodeAt(ev.dom0, Block0))))

\* C33: an Enter keydown outside a list splits the block at the caret: what
\* precedes the caret stays in the block, what follows it to the end of the
\* block moves into the new paragraph that receives the caret, outside any
\* inline formatting.
C33_EnterSplitsBlockAtCaret ==
  C8Case =>
    LET nb == Parent(Block0) \o <<Last(Block0) + 1>>
    IN /\ ev.prevented
       /\ sel.n = 1 /\ BlockNow = nb /\ NodeAt(dom, nb).tag = "p"
       /\ TextOf(NodeAt(dom, Block0)) = BeforeInBlock0
       /\ TextOf(NodeAt(dom, nb)) = AfterInBlock0
       /\ TagsAbove(dom, sel.sc) \cap InlineTags = {}

\* C33: Enter with the caret before the last character of a paragraph: the
\* character stays in the paragraph, the new paragraph is empty.
C33_TextAfterCaretStays ==
  /\ C8Case /\ AfterInBlock0 = <<"z">>
  /\ TextOf(NodeAt(dom, Block0)) = BeforeInBlock0 \o <<"z">>
  /\ NodeAt(dom, BlockNow) = El("p", <<Br>>)

\* C33: with the caret at the end of its block, Enter gives what a split
\* gives.
C33_SplitAtEndOfBlock ==
  C8Case /\ AfterInBlock0 = <<>> =>
    LET nb == Parent(Block0) \o <<Last(Block0) + 1>>
    IN /\ ev.prevented
       /\ sel.n = 1 /\ BlockNow = nb /\ NodeAt(dom, nb).tag = "p"
       /\ TextOf(NodeAt(dom, Block0)) = BeforeInBlock0
       /\ TextOf(NodeAt(dom, nb)) = <<>>
       /\ TagsAbove(dom, sel.sc) \cap InlineTags = {}

\* The last keydown reached the block recognizer with a trigger of its key
\* on the trimmed line before the caret: a plain space that made no inline
\* conversion, or an Enter in a list item outside inline formatting.
BlockTriggerSeen ==
  \/ PlainKey(" ") /\ ev.inl = 0 /\ Block0 # <<>> /\ Trim(Line0) \in SpaceTriggers
  \/ /\ PlainKey("Enter") /\ ~ev.flag0 /\ Block0 # <<>> /\ Trim(Line0) \in EnterTriggers
     /\ TagsAbove(ev.dom0, ev.sel0.sc) \cap {"ul", "ol"} # {}
     /\ TagsAbove(ev.dom0, ev.sel0.sc) \cap InlineTags = {}

\* deleteCharsBeforeCaret cannot delete the trigger: the caret is not in a
\* text node, or the text node holds less than the trigger before the caret.
TriggerOutOfReach == ~IsText(Node0) \/ ev.sel0.so < Len(Trim(Line0))

\* C34: a keydown the block recognizer suppressed for a trigger has made
\* the conversion; when the trigger cannot be deleted the handlers leave
\* the tree as it was and the key to the host.
C34_SuppressedKeyMeansConversion ==
  /\ BlockTriggerSeen /\ ev.prevented => ev.trig # <<>> /\ ev.domE # ev.dom0
  /\ BlockTriggerSeen /\ TriggerOutOfReach => ev.domE = ev.dom0 /\ ~ev.prevented

\* C34: a space after a # whose caret is in the paragraph, not in the text
\* node, was suppressed: nothing was converted, nothing was typed.
C34_KeySwallowedWithoutConversion ==
  /\ BlockTriggerSeen /\ TriggerOutOfReach /\ ~IsText(Node0)
  /\ ev.prevented /\ ev.trig = <<>>
  /\ TextOf(dom) = TextOf(ev.dom0)

\* C34: when the trigger is in reach of the caret, a suppressed key has
\* made the conversion.
C34_SuppressedWithinReachConverts ==
  BlockTriggerSeen /\ ~TriggerOutOfReach /\ ev.prevented => ev.trig # <<>> /\ ev.domE # ev.dom0

\* C34: an Enter after --- in a list item was suppressed and made a rule.
C34_RuleMadeInListItem ==
  /\ BlockTriggerSeen /\ ev.e.key = "Enter" /\ ev.prevented /\ ev.trig = <<"-", "-", "-">>
  /\ \E p \in PathsOf(dom) : NodeAt(dom, p).tag = "hr"

\* The text of the document the last event met, without the trigger before
\* the caret.
TextWithoutTrigger0 ==
  LET at == Len(TextBefore(ev.dom0, ev.sel0.sc, ev.sel0.so))
  IN Splice(TextOf(ev.dom0), at - Len(ev.trig) + 1, at, <<>>)

C35Case == PlainKey(" ") /\ ev.trig # <<>>

\* The characters of a text that are not white space.
Ink(s) == SelectSeq(s, LAMBDA c : c \notin WhiteSpace)

\* C35: a conversion to a heading, a blockquote or a list item removes the
\* trigger only: every other character of the document (white space
\* apart), the text after the caret on the same line included, is in the
\* document after it.
C35_ConversionRemovesTriggerOnly == C35Case => Ink(TextOf(dom)) = Ink(TextWithoutTrigger0)

\* C35: the line -z with the caret after the - became an empty list item,
\* the z is nowhere in the document.
C35_TextAfterListTriggerLost ==
  /\ C35Case /\ ev.trig = <<"-">> /\ AfterInBlock0 = <<"z">>
  /\ "li" \in TagsAbove(dom, sel.sc)
  /\ TextOf(dom) = <<>>

\* C35: a conversion to a heading or a blockquote removes the trigger only.
C35_HeadingKeepsOtherText ==
  C35Case /\ TagMap(ev.trig) # "" => Ink(TextOf(dom)) = Ink(TextWithoutTrigger0)

\* C35: the line #z with the caret after the # became the heading z.
C35_HeadingKeptTextAfterCaret ==
  /\ C35Case /\ ev.trig = <<"#">> /\ AfterInBlock0 = <<"z">>
  /\ NodeAt(dom, BlockNow).tag = "h1" /\ TextOf(NodeAt(dom, BlockNow)) = <<"z">>

(***************************************************************************)
(* The frame of the font-size and inline-code commands                     *)
(***************************************************************************)

\* The formatting an element gives its content, the font size and the
\* inline code apart: bold, italic, underline, strikethrough, link, color.
MarkOf(n) ==
  IF n.tag \in {"strong", "b", "em", "i", "u", "s", "del", "a"} THEN {<<n.tag>> \o n.attr}
  ELSE IF n.tag = "span" /\ n.attr # <<>> /\ n.attr[1] \in {"color", "backgroundColor", "toggle"}
  THEN {n.attr}
  ELSE {}

RECURSIVE FormattedLeaves(_, _)
\* The characters and images of a tree in document order, each with the
\* formatting of the elements above it.
FormattedLeaves(n, marks) ==
  IF IsText(n) THEN [i \in 1..Len(n.data) |-> <<n.data[i], marks>>]
  ELSE IF n.tag = "img" THEN << <<"img", marks>> >>
  ELSE Concat([i \in 1..Len(n.kids) |-> FormattedLeaves(n.kids[i], marks \cup MarkOf(n))])

C36Case ==
  /\ ev.op \in {"fontSize", "fontSizeIncrease", "fontSizeDecrease", "code"}
  /\ ev.sel0.n = 1 /\ ~IsCollapsed(ev.sel0)

\* C36: a font-size command or the inline-code command on a selection
\* changes that attribute only: the text of the document and its bold,
\* italic, underline, strikethrough, link, color and image runs are the
\* same before and after.
C36_SizeAndCodeChangeNothingElse ==
  C36Case => FormattedLeaves(dom, {}) = FormattedLeaves(ev.dom0, {})

\* C36: the font size was set on a selection of a bold and a plain run:
\* the text is the same, the bold run is gone.
C36_BoldLostUnderFontSize ==
  /\ C36Case /\ ev.op = "fontSize"
  /\ \E p \in PathsOf(ev.dom0) : NodeAt(ev.dom0, p).tag = "strong"
  /\ \A p \in PathsOf(dom) : NodeAt(dom, p).tag # "strong"
  /\ TextOf(dom) = TextOf(ev.dom0)

\* C36: the inline code was made of a selection of a bold and a plain run:
\* the text is the same, the bold run is gone.
C36_BoldLostUnderInlineCode ==
  /\ C36Case /\ ev.op = "code"
  /\ \E p \in PathsOf(ev.dom0) : NodeAt(ev.dom0, p).tag = "strong"
  /\ \A p \in PathsOf(dom) : NodeAt(dom, p).tag # "strong"
  /\ \E p \in PathsOf(dom) : NodeAt(dom, p).tag = "code"
  /\ TextOf(dom) = TextOf(ev.dom0)

\* C36: the commands change nothing else when the selection lies within
\* one text node, and they keep the text of every selection.
C36_FrameKeptWithinTextNode ==
  /\ C36Case => TextOf(dom) = TextOf(ev.dom0)
  /\ C36Case /\ IsText(Node0) => FormattedLeaves(dom, {}) = FormattedLeaves(ev.dom0, {})

(***************************************************************************)
(* The store: edits, and calls that overlap                                *)
(***************************************************************************)

\* No call is in flight and no auto-save timer is pending.
Quiescent == store.calls = <<>> /\ store.pending = 0

\* C37: no edit is dropped: once the timers have fired and the calls have
\* returned, the content last given to a document is its persisted content,
\* also when another document was made current in between; and the save an
\* auto-save timer starts after an edit is a save of the edited document.
C37_EditsReachTheStore ==
  /\ Quiescent /\ sev.edit.id # 0 /\ store.db[sev.edit.id] # NoDoc
       => store.db[sev.edit.id].content = sev.edit.content
  /\ sev.op = "timer" /\ sev.call.op = "save" /\ sev.edit.id # 0 => sev.call.id = sev.edit.id

\* C37: a document was edited, another document was made current, the
\* timer fired and saved the other document; the edit is not persisted and
\* no timer is left to save it.
C37_EditDroppedOtherDocumentSaved ==
  /\ Quiescent /\ sev.op = "save" /\ sev.done /\ sev.call.alone
  /\ sev.edit.id # 0 /\ sev.call.id # sev.edit.id
  /\ store.currentDocument.id = sev.call.id
  /\ store.db[sev.edit.id] # NoDoc /\ store.db[sev.edit.id].content # sev.edit.content

\* C37: the edit is persisted when the edited document is still current as
\* the timer fires and its save runs alone.
C37_EditSavedWhenDocumentStaysCurrent ==
  /\ Quiescent /\ sev.op = "save" /\ sev.done /\ sev.call.alone
  /\ sev.edit.id # 0 /\ sev.call.id = sev.edit.id /\ sev.call.cd.content = sev.edit.content
  => store.db[sev.edit.id].content = sev.edit.content

\* C37: an edit was saved by its timer.
C37_EditSavedByTimer ==
  /\ Quiescent /\ sev.op = "save" /\ sev.done /\ sev.call.alone /\ sev.saves = 1
  /\ sev.edit.id # 0 /\ sev.call.id = sev.edit.id
  /\ store.db[sev.edit.id].content = sev.edit.content /\ sev.edit.content # 0

\* C38: once deleteDocument(id) has returned, the object store holds no
\* document of that id until a restore, whatever saveDocument or togglePin
\* of the id was in flight.
C38_DeletedDocumentStaysDeleted == \A id \in sev.deleted : store.db[id] = NoDoc

\* C38: a saveDocument that had read the document before it was deleted
\* has put it back after the deletion returned.
C38_SavePutsDeletedDocumentBack ==
  /\ sev.op = "save" /\ sev.done /\ sev.call.id \in sev.deleted
  /\ store.db[sev.call.id] # NoDoc
  /\ \A i \in 1..Len(store.documents) : store.documents[i].id # sev.call.id

\* C38: a togglePin that had read the document before it was deleted has
\* put it back after the deletion returned.
C38_TogglePutsDeletedDocumentBack ==
  /\ sev.op = "pin" /\ sev.done /\ sev.call.id \in sev.deleted
  /\ store.db[sev.call.id] # NoDoc

\* C38: while the call that deleted a document is the last that returned,
\* the object store does not hold the document.
C38_DeletedWhenDeleteReturns ==
  sev.op = "delete" /\ sev.done => store.db[sev.call.id] = NoDoc

\* Only togglePin and saveDocument calls (and the edits, timers and clicks
\* that lead to them) have run, and all have returned.
OnlyPinsAndSaves ==
  store.calls = <<>> /\ sev.ops \subseteq {"pin", "save", "change", "timer", "select"}

\* The pin state a document has after the togglePin calls that returned.
PinExpected(id) == (id \in sev.pinned0) # (sev.toggles[id] % 2 = 1)

\* C39: once all togglePin and saveDocument calls have returned, the
\* isPinned of every document of the list is its persisted isPinned, and
\* the persisted isPinned has been flipped once for every togglePin that
\* returned.
C39_PinFlippedOncePerToggle ==
  OnlyPinsAndSaves =>
    \A i \in 1..Len(store.documents) :
      LET d == store.documents[i]
      IN d.isPinned = store.db[d.id].isPinned /\ store.db[d.id].isPinned = PinExpected(d.id)

\* C39: two togglePin calls on a document overlapped and both returned; the
\* persisted isPinned was flipped once, the isPinned of the list twice.
C39_TwoTogglesCollapseIntoOne ==
  /\ OnlyPinsAndSaves
  /\ \E i \in 1..Len(store.documents) :
       LET d == store.documents[i]
       IN /\ sev.toggles[d.id] = 2
          /\ store.db[d.id].isPinned # (d.id \in sev.pinned0)
          /\ d.isPinned = (d.id \in sev.pinned0)

\* C39: a saveDocument that had read the document before a togglePin wrote
\* it has written the old isPinned back.
C39_SaveRevertsPin ==
  /\ OnlyPinsAndSaves /\ sev.op = "save" /\ sev.done
  /\ sev.toggles[sev.call.id] = 1
  /\ store.db[sev.call.id].isPinned = (sev.call.id \in sev.pinned0)

\* C39: a togglePin returned, then a saveDocument of the same document ran
\* alone: the list entry has the isPinned of before the toggle, the object
\* store the new one.
C39_SavedEntryKeepsOldPin ==
  /\ OnlyPinsAndSaves /\ Completed("save")
  /\ sev.toggles[sev.call.id] = 1
  /\ store.db[sev.call.id].isPinned = PinExpected(sev.call.id)
  /\ \E i \in 1..Len(store.documents) :
       store.documents[i].id = sev.call.id /\ store.documents[i].isPinned # PinExpected(sev.call.id)

\* C39: as long as no saveDocument has run, a togglePin that ran alone
\* leaves the list and the object store with the flipped isPinned.
C39_ToggleAloneFlipsBoth ==
  OnlyPinsAndSaves /\ Completed("pin") /\ "save" \notin sev.ops /\ sev.toggles[sev.call.id] = 1 =>
    /\ store.db[sev.call.id].isPinned = PinExpected(sev.call.id)
    /\ \A i \in 1..Len(store.documents) :
         store.documents[i].id = sev.call.id => store.documents[i].isPinned = PinExpected(sev.call.id)

\* Only fetchDocuments, importDocumentsFromJson, createDocument and
\* deleteDocument calls have run, and all have returned.
OnlyListOperations ==
  store.calls = <<>> /\ sev.ops \subseteq {"fetch", "import", "create", "delete"}

\* C40: once all fetchDocuments, importDocumentsFromJson, createDocument
\* and deleteDocument calls have returned, however they interleaved, the
\* list holds exactly the ids of the persisted documents, each once, and the
\* current document, when there is one, is a document of the list.
C40_ListHoldsThePersistedIds ==
  OnlyListOperations =>
    /\ {store.documents[i].id : i \in 1..Len(store.documents)} = {i \in 1..4 : store.db[i] # NoDoc}
    /\ Len(store.documents) = Cardinality({i \in 1..4 : store.db[i] # NoDoc})
    /\ store.currentDocument # NoDoc
         => \E i \in 1..Len(store.documents) : store.documents[i].id = store.currentDocument.id

\* C40: a deleteDocument of the current document returned while a
\* fetchDocuments or a restore was in flight or had run with it in flight.
C40_DeleteOverlappedListRefresh ==
  /\ OnlyListOperations /\ sev.done /\ ~sev.call.alone
  /\ sev.ops \cap {"fetch", "import"} # {} /\ "delete" \in sev.ops
  /\ store.currentDocument = NoDoc
  /\ Cardinality({i \in 1..4 : store.db[i] # NoDoc}) < 2

\* C40: a createDocument and a restore overlapped and both returned: the
\* list holds the new document and the restored ones.
C40_CreateOverlappedRestore ==
  /\ OnlyListOperations /\ sev.done /\ ~sev.call.alone
  /\ {"import", "create"} \subseteq sev.ops
  /\ store.db[4] # NoDoc /\ store.db[3] # NoDoc /\ Len(store.documents) = 4

=============================================================================
